---- MODULE Spec2Model ----
(***************************************************************************)
(* State-machine model of the BusTub storage stack of this repository:     *)
(*   - LRUKReplacer          (src/src/buffer/lru_k_replacer.cpp)           *)
(*   - BufferPoolManager     (src/src/buffer/buffer_pool_manager.cpp)      *)
(*   - Basic/Read/Write page guards (src/src/storage/page/page_guard.cpp)  *)
(*   - BPlusTree, its leaf and internal pages, IndexIterator               *)
(*       (src/src/storage/index, src/src/storage/page)                     *)
(* Every operation that runs under the pool latch is one atomic action.    *)
(***************************************************************************)
EXTENDS Integers, Sequences, FiniteSets, TLC

\* ------------------------------------------------------------------ bounds
PoolSize   == 2   \* pool_size_ / replacer_size_: number of frames
MaxPages   == 3   \* page ids 0..MaxPages-1 may be allocated (cap on next_page_id_)
MaxTime    == 4   \* cap on current_timestamp_
MaxK       == 2   \* replacer_k: the pool uses MaxK, the replacer alone 1..MaxK
ReplMaxTime == 5  \* cap on current_timestamp_ when the replacer runs alone
MaxVal     == 1   \* page bytes are 0 (zeroed) or a client value 1..MaxVal
MaxPin     == 2   \* cap on pin_count_ of one page
NumGuards  == 2   \* guard objects that may exist at once
MaxKey     == 5   \* index keys are 0..MaxKey
MaxLeafMax == 3   \* leaf_max_size given to the tree is 2..MaxLeafMax
MaxInternalMax == 4  \* internal_max_size given to the tree is 3..MaxInternalMax
MaxTreeOps == 10   \* cap on the inserts and removes one tree goes through
NumTreeThreads == 2  \* threads that call into one tree at the same time
MaxConcOps == 5    \* cap on the calls the threads start on one shared tree
NumTxns == 3       \* transactions that call into the lock manager
MaxLockOps == 4    \* calls the transactions make in a run
MaxFairOps == 5    \* the same, in the runs on one table
NumDetTxns == 4    \* transactions in the lock tables the detector is run on
MaxHolders == 2    \* transactions that hold a lock another one waits for
MaxDetOps == 1     \* calls the clients make while the detector runs
MaxTuples == 3     \* tuples the table heap may hold
SeqLeafMax == 4    \* leaf_max_size of the trees filled in key order is 2..SeqLeafMax
SeqInternalMax == 5  \* their internal_max_size is 3..SeqInternalMax
SeqKeys == 20      \* they are given the keys 1..SeqKeys
MaxWrites == 4     \* table write records of one transaction

\* ------------------------------------------------------------ value spaces
INVALID_PAGE_ID == 0 - 1
NoFrame  == 0 - 1           \* nullptr Page* / no victim
Frames   == 0 .. (PoolSize - 1)
PageIds  == 0 .. (MaxPages - 1)
Vals     == 0 .. MaxVal
Threads  == {1, 2}
Guards   == 1 .. NumGuards
Ks       == 1 .. MaxK
TreeKeys == 0 .. MaxKey
LeafMaxes == 2 .. MaxLeafMax
InternalMaxes == 3 .. MaxInternalMax
TreeThreads == 1 .. NumTreeThreads
INVALID_TXN_ID == 0 - 1
Txns == 0 .. (NumTxns - 1)
UndoKeys == 0 .. 1
Resources == {"table", "row"}   \* one table and one row of it, each with its queue

VARIABLES
  replacer_,       \* the LRUKReplacer object (record of its fields)
  pages_,          \* frame -> [page_id_, pin_count_, is_dirty_, data_]
  page_table_,     \* page id -> frame (partial)
  free_list_,      \* sequence of frames
  next_page_id_,   \* AllocatePage counter
  disk,            \* DiskManager image: page id -> bytes
  latch,           \* frame -> page latch: 0 free, n > 0 readers, -1 writer
  guards,          \* guard object -> [alive, kind, page_, is_dirty_]
  held,            \* thread -> page id -> pins taken through the raw API
  owed,            \* pins taken by guards minus UnpinPage calls made by guards
  accesses,        \* frame -> timestamps of its accesses since it became tracked
  last,            \* the most recent call and what it returned
  tree,            \* the BPlusTree object and the pages it has allocated
  kv,              \* the pairs the callers have inserted and not removed
  tree_ops,        \* the inserts and removes the tree has gone through
  thr,             \* tree thread -> the call it is in, where, and the latches it holds
  lq,              \* resource -> its LockRequestQueue: request_queue_, upgrading_
  txns,            \* transaction -> its state, and where its thread is in a lock call
  lock_ops,        \* the calls the transactions may still make
  heap             \* the table heap: its tuples, and what it held before the transaction

vars == <<replacer_, pages_, page_table_, free_list_, next_page_id_, disk,
          latch, guards, held, owed, accesses, last, tree, kv, tree_ops, thr,
          lq, txns, lock_ops, heap>>
\* the index's and the lock manager's state, which no buffer pool operation touches
lockVars == <<lq, txns, lock_ops>>
indexVars == <<tree, kv, tree_ops, thr, lockVars, heap>>

\* ------------------------------------------------------- sequence helpers
MaxOf(S) == CHOOSE x \in S : \A y \in S : y <= x
RemoveAt(s, i) == SubSeq(s, 1, i - 1) \o SubSeq(s, i + 1, Len(s))
InsertAt(s, i, e) == SubSeq(s, 1, i - 1) \o <<e>> \o SubSeq(s, i, Len(s))
IndexOf(s, fid) == CHOOSE i \in 1 .. Len(s) : s[i].fid_ = fid
MapErase(m, k) == [x \in (DOMAIN m) \ {k} |-> m[x]]
MapInsert(m, k, v) == m @@ (k :> v)

\* =================================================================
\*                          LRUKReplacer
\* =================================================================

LRUKNode(ts, fid) ==
  [fid_ |-> fid, k_ |-> 1, history_ |-> <<ts>>, is_evictable_ |-> FALSE]

NewReplacer(num_frames, k) ==
  [replacer_size_ |-> num_frames, k_ |-> k,
   fifo_dl_ |-> <<>>, lru_dl_ |-> <<>>, node_store_ |-> <<>>,
   evictable_cnt_fifo_ |-> 0, evictable_cnt_lru_ |-> 0,
   curr_size_ |-> 0, current_timestamp_ |-> 0]

\* the list a tracked frame's node_store_ iterator points into
ListOf(r, f) == IF r.node_store_[f] = "fifo" THEN r.fifo_dl_ ELSE r.lru_dl_
NodeOf(r, f) == ListOf(r, f)[IndexOf(ListOf(r, f), f)]

SizeTracked(r) == r.curr_size_
Size(r) == r.evictable_cnt_fifo_ + r.evictable_cnt_lru_

\* the reverse scan of a list (rbegin..rend) stops at the first evictable node
ScanTestAny(node) == TRUE
ScanTest(node) == node.is_evictable_

ScanFromBack(list) ==
  LET c == {i \in 1 .. Len(list) : ScanTest(list[i])}
  IN  IF c = {} THEN 0 ELSE MaxOf(c)

Evict(r) ==
  LET none == [ok |-> FALSE, fid |-> NoFrame, r |-> r]
      i == ScanFromBack(r.fifo_dl_)
      j == ScanFromBack(r.lru_dl_)
  IN  IF r.fifo_dl_ = <<>> /\ r.lru_dl_ = <<>> THEN none
      ELSE IF r.evictable_cnt_fifo_ > 0 /\ i # 0 THEN
        [ok |-> TRUE, fid |-> r.fifo_dl_[i].fid_,
         r |-> [r EXCEPT !.node_store_ = MapErase(@, r.fifo_dl_[i].fid_),
                         !.fifo_dl_ = RemoveAt(@, i),
                         !.evictable_cnt_fifo_ = @ - 1,
                         !.curr_size_ = @ - 1]]
      ELSE IF r.evictable_cnt_lru_ > 0 /\ j # 0 THEN
        [ok |-> TRUE, fid |-> r.lru_dl_[j].fid_,
         r |-> [r EXCEPT !.node_store_ = MapErase(@, r.lru_dl_[j].fid_),
                         !.lru_dl_ = RemoveAt(@, j),
                         !.evictable_cnt_lru_ = @ - 1,
                         !.curr_size_ = @ - 1]]
      ELSE none

\* position of the ordered insert into lru_dl_: before the first node whose
\* oldest kept timestamp is smaller than the target's
LruInsertPosFront(list, node) == 1
LruInsertPos(list, node) ==
  LET c == {i \in 1 .. Len(list) : list[i].history_[1] < node.history_[1]}
  IN  IF c = {} THEN Len(list) + 1 ELSE CHOOSE i \in c : \A j \in c : i <= j

\* the node has just reached k_ accesses while evictable: its count moves
\* from the fifo counter to the lru counter
CrossesK(node, k) == node.is_evictable_ /\ node.k_ = k

\* RecordAccess on a frame that node_store_ already tracks, else-branch of
\* line 94: the node has reached (or passed) k_ accesses
RecordAccessPromote(r, f, ts) ==
  LET inFifo == r.node_store_[f] = "fifo"
      j   == IndexOf(ListOf(r, f), f)
      t0  == ListOf(r, f)[j]
      k1  == t0.k_ + 1
      h1  == Append(t0.history_, ts)
      t1  == [t0 EXCEPT !.k_ = k1,
                        !.history_ = IF k1 > r.k_ THEN Tail(h1) ELSE h1]
      \* the node is updated in place, so the scan of lru_dl_ sees it
      lruSeen == IF inFifo THEN r.lru_dl_ ELSE [r.lru_dl_ EXCEPT ![j] = t1]
      pos == LruInsertPos(lruSeen, t1)
      lruIns == InsertAt(lruSeen, pos, t1)
      jOld == IF pos <= j THEN j + 1 ELSE j
      moved == CrossesK(t1, r.k_)
  IN  [r EXCEPT
         !.fifo_dl_ = IF inFifo /\ (k1 = r.k_ \/ k1 > r.k_) THEN RemoveAt(@, j) ELSE @,
         !.lru_dl_ = IF ~inFifo /\ (k1 = r.k_ \/ k1 > r.k_) THEN RemoveAt(lruIns, jOld)
                     ELSE lruIns,
         !.evictable_cnt_lru_ = IF moved THEN @ + 1 ELSE @,
         !.evictable_cnt_fifo_ = IF moved THEN @ - 1 ELSE @,
         !.node_store_ = [@ EXCEPT ![f] = "lru"]]

RecordAccess(r, f) ==
  LET ts == r.current_timestamp_ + 1
      r1 == [r EXCEPT !.current_timestamp_ = ts]
  IN  IF f \in DOMAIN r.node_store_ THEN
        LET j  == IndexOf(ListOf(r, f), f)
            t0 == ListOf(r, f)[j]
            t1 == [t0 EXCEPT !.k_ = @ + 1, !.history_ = Append(@, ts)]
        IN  IF t0.k_ + 1 < r.k_ THEN
              IF r.node_store_[f] = "fifo"
                THEN [r1 EXCEPT !.fifo_dl_[j] = t1]
                ELSE [r1 EXCEPT !.lru_dl_[j] = t1]
            ELSE RecordAccessPromote(r1, f, ts)
      ELSE IF r.k_ > 1 THEN
        [r1 EXCEPT !.fifo_dl_ = <<LRUKNode(ts, f)>> \o @,
                   !.node_store_ = MapInsert(@, f, "fifo"),
                   !.curr_size_ = @ + 1]
      ELSE
        [r1 EXCEPT !.lru_dl_ = InsertAt(@, LruInsertPos(@, LRUKNode(ts, f)),
                                        LRUKNode(ts, f)),
                   !.node_store_ = MapInsert(@, f, "lru"),
                   !.curr_size_ = @ + 1]

\* the node of a tracked frame with its flag replaced, in whichever list holds it
WithFlag(r, f, b) ==
  LET j == IndexOf(ListOf(r, f), f)
  IN  IF r.node_store_[f] = "fifo"
        THEN [r EXCEPT !.fifo_dl_[j].is_evictable_ = b]
        ELSE [r EXCEPT !.lru_dl_[j].is_evictable_ = b]

SetEvictable(r, f, set_evictable) ==
  IF f \notin DOMAIN r.node_store_ THEN r
  ELSE IF NodeOf(r, f).is_evictable_ = set_evictable THEN r
  ELSE LET r1 == WithFlag(r, f, set_evictable)
           d  == IF set_evictable THEN 1 ELSE 0 - 1
       IN  IF NodeOf(r, f).k_ < r.k_
             THEN [r1 EXCEPT !.evictable_cnt_fifo_ = @ + d]
             ELSE [r1 EXCEPT !.evictable_cnt_lru_ = @ + d]

\* Remove: thrown = TRUE is the Exception of line 185 (nothing was changed yet)
Remove(r, f) ==
  IF f \notin DOMAIN r.node_store_ THEN [thrown |-> FALSE, r |-> r]
  ELSE IF ~NodeOf(r, f).is_evictable_ THEN [thrown |-> TRUE, r |-> r]
  ELSE LET j == IndexOf(ListOf(r, f), f)
           inFifo == r.node_store_[f] = "fifo"
           lowK == NodeOf(r, f).k_ < r.k_
       IN  [thrown |-> FALSE,
            r |-> [r EXCEPT
                     !.fifo_dl_ = IF inFifo THEN RemoveAt(@, j) ELSE @,
                     !.lru_dl_ = IF inFifo THEN @ ELSE RemoveAt(@, j),
                     !.evictable_cnt_fifo_ = IF lowK THEN @ - 1 ELSE @,
                     !.evictable_cnt_lru_ = IF lowK THEN @ ELSE @ - 1,
                     !.node_store_ = MapErase(@, f),
                     !.curr_size_ = @ - 1]]

\* =================================================================
\*                        BufferPoolManager
\* =================================================================
\* The pool as one value, so that guards can call its operations.
Bpm ==
  [pages_ |-> pages_, page_table_ |-> page_table_, free_list_ |-> free_list_,
   next_page_id_ |-> next_page_id_, replacer_ |-> replacer_, disk |-> disk]

SetBpm(b) ==
  /\ pages_' = b.pages_
  /\ page_table_' = b.page_table_
  /\ free_list_' = b.free_list_
  /\ next_page_id_' = b.next_page_id_
  /\ replacer_' = b.replacer_
  /\ disk' = b.disk

NewPool(k) ==
  [pages_ |-> [f \in Frames |-> [page_id_ |-> INVALID_PAGE_ID, pin_count_ |-> 0,
                                 is_dirty_ |-> FALSE, data_ |-> 0]],
   page_table_ |-> <<>>,
   free_list_ |-> [i \in 1 .. PoolSize |-> i - 1],
   next_page_id_ |-> 0,
   replacer_ |-> NewReplacer(PoolSize, k),
   disk |-> [p \in PageIds |-> 0]]

\* "no free frame and all frames are in used"
ExhaustedNoFree(b) == b.free_list_ = <<>>
Exhausted(b) == b.free_list_ = <<>> /\ Size(b.replacer_) = 0

\* disk_manager_->WritePage(page_id, data)
DiskWrite(d, p, data) == IF p \in DOMAIN d THEN [d EXCEPT ![p] = data] ELSE d

\* the frame for a missing page: front of the free list, else the replacer's
\* victim; free_frame keeps its initial 0 when Evict reports failure
AcquireFrame(b) ==
  IF b.free_list_ # <<>> THEN
    [frame |-> Head(b.free_list_), evicted |-> FALSE,
     free_list_ |-> Tail(b.free_list_), replacer_ |-> b.replacer_]
  ELSE IF Size(b.replacer_) > 0 THEN
    LET e == Evict(b.replacer_)
    IN  [frame |-> IF e.ok THEN e.fid ELSE 0, evicted |-> e.ok,
         free_list_ |-> b.free_list_, replacer_ |-> e.r]
  ELSE [frame |-> 0, evicted |-> FALSE,
        free_list_ |-> b.free_list_, replacer_ |-> b.replacer_]

\* the write-back test before a frame is reused
WriteBackNever(page) == FALSE
WriteBackNeeded(page) == page.is_dirty_

\* page table after insert({id, frame}) and the erase of the frame's old page
RemapKeepOld(pt, id, frame, old) == MapInsert(pt, id, frame)
Remap(pt, id, frame, old) ==
  LET pt1 == MapInsert(pt, id, frame)
  IN  IF old \in DOMAIN pt1 /\ id # old THEN MapErase(pt1, old) ELSE pt1

NewPage(b) ==
  IF Exhausted(b)
  THEN [ret |-> NoFrame, page_id |-> INVALID_PAGE_ID, victim |-> INVALID_PAGE_ID, b |-> b]
  ELSE
    LET id  == b.next_page_id_
        a   == AcquireFrame(b)
        old == b.pages_[a.frame]
    IN  [ret |-> a.frame, page_id |-> id,
         victim |-> IF a.evicted THEN old.page_id_ ELSE INVALID_PAGE_ID,
         b |-> [pages_ |-> [b.pages_ EXCEPT ![a.frame] =
                              [page_id_ |-> id, pin_count_ |-> 1,
                               is_dirty_ |-> FALSE, data_ |-> 0]],
                page_table_ |-> Remap(b.page_table_, id, a.frame, old.page_id_),
                free_list_ |-> a.free_list_,
                next_page_id_ |-> id + 1,
                replacer_ |-> SetEvictable(RecordAccess(a.replacer_, a.frame),
                                           a.frame, FALSE),
                disk |-> IF WriteBackNeeded(old)
                           THEN DiskWrite(b.disk, old.page_id_, old.data_)
                           ELSE b.disk]]

FetchPage(b, page_id) ==
  IF page_id \in DOMAIN b.page_table_ THEN
    LET f == b.page_table_[page_id]
    IN  [ret |-> f, victim |-> INVALID_PAGE_ID, loaded |-> FALSE,
         b |-> [b EXCEPT !.replacer_ = SetEvictable(RecordAccess(@, f), f, FALSE),
                         !.pages_[f].pin_count_ = @ + 1]]
  ELSE IF Exhausted(b)
  THEN [ret |-> NoFrame, victim |-> INVALID_PAGE_ID, loaded |-> FALSE, b |-> b]
  ELSE
    LET a   == AcquireFrame(b)
        old == b.pages_[a.frame]
        d1  == IF WriteBackNeeded(old)
                 THEN DiskWrite(b.disk, old.page_id_, old.data_) ELSE b.disk
    IN  [ret |-> a.frame, loaded |-> TRUE,
         victim |-> IF a.evicted THEN old.page_id_ ELSE INVALID_PAGE_ID,
         b |-> [pages_ |-> [b.pages_ EXCEPT ![a.frame] =
                              [page_id_ |-> page_id, pin_count_ |-> 1,
                               is_dirty_ |-> FALSE, data_ |-> d1[page_id]]],
                page_table_ |-> Remap(b.page_table_, page_id, a.frame, old.page_id_),
                free_list_ |-> a.free_list_,
                next_page_id_ |-> b.next_page_id_,
                replacer_ |-> SetEvictable(RecordAccess(a.replacer_, a.frame),
                                           a.frame, FALSE),
                disk |-> d1]]

\* UnpinPage(page_id_t, bool)
DirtyAfterUnpinAssign(was, is_dirty) == is_dirty
DirtyAfterUnpin(was, is_dirty) == was \/ is_dirty

UnpinPage(b, page_id, is_dirty) ==
  IF page_id \notin DOMAIN b.page_table_ THEN [ret |-> FALSE, b |-> b]
  ELSE
    LET f == b.page_table_[page_id]
        pg == b.pages_[f]
    IN  IF pg.pin_count_ = 0 THEN [ret |-> FALSE, b |-> b]
        ELSE [ret |-> TRUE,
              b |-> [b EXCEPT
                       !.replacer_ = IF pg.pin_count_ - 1 = 0
                                       THEN SetEvictable(@, f, TRUE) ELSE @,
                       !.pages_[f] = [pg EXCEPT
                                        !.pin_count_ = @ - 1,
                                        !.is_dirty_ = DirtyAfterUnpin(@, is_dirty)]]]

\* UnpinPage(Page *): the pointer is the frame it points to (NoFrame = nullptr)
UnpinPagePtr(b, page) ==
  IF page = NoFrame THEN [ret |-> FALSE, b |-> b]
  ELSE
    LET pg == b.pages_[page]
    IN  IF \/ pg.page_id_ = INVALID_PAGE_ID
           \/ pg.pin_count_ = 0
           \/ pg.page_id_ \notin DOMAIN b.page_table_
        THEN [ret |-> FALSE, b |-> b]
        ELSE [ret |-> TRUE,
              b |-> [b EXCEPT
                       !.replacer_ = IF pg.pin_count_ - 1 = 0
                                       THEN SetEvictable(@, b.page_table_[pg.page_id_], FALSE)
                                       ELSE @,
                       !.pages_[page].pin_count_ = @ - 1]]

FlushPage(b, page_id) ==
  IF page_id = INVALID_PAGE_ID \/ page_id \notin DOMAIN b.page_table_
  THEN [ret |-> FALSE, b |-> b]
  ELSE LET f == b.page_table_[page_id]
       IN  [ret |-> TRUE,
            b |-> [b EXCEPT !.disk = DiskWrite(@, page_id, b.pages_[f].data_),
                            !.pages_[f].is_dirty_ = FALSE]]

\* FlushAllPages: FlushPageWithoutLatch on every (page_id, frame_id) of the table
FlushAllPages(b) ==
  [b EXCEPT
     !.disk = [p \in DOMAIN @ |->
                 IF p \in DOMAIN b.page_table_
                   THEN b.pages_[b.page_table_[p]].data_ ELSE @[p]],
     !.pages_ = [f \in DOMAIN @ |->
                   IF \E p \in DOMAIN b.page_table_ : b.page_table_[p] = f
                     THEN [@[f] EXCEPT !.is_dirty_ = FALSE] ELSE @[f]]]

\* DeletePage; thrown = TRUE when replacer_->Remove throws after the frame was
\* already appended to the free list (lines 304-305)
FreeListAfterDeleteKeep(fl, frame_id) == fl
FreeListAfterDelete(fl, frame_id) == Append(fl, frame_id)

DeletePage(b, page_id) ==
  IF page_id \notin DOMAIN b.page_table_ THEN [ret |-> TRUE, thrown |-> FALSE, b |-> b]
  ELSE
    LET f  == b.page_table_[page_id]
        pg == b.pages_[f]
        rm == Remove(b.replacer_, f)
    IN  IF pg.pin_count_ > 0 THEN [ret |-> FALSE, thrown |-> FALSE, b |-> b]
        ELSE IF rm.thrown THEN
          [ret |-> FALSE, thrown |-> TRUE,
           b |-> [b EXCEPT !.free_list_ = FreeListAfterDelete(@, f)]]
        ELSE
          [ret |-> TRUE, thrown |-> FALSE,
           b |-> [b EXCEPT
                    !.free_list_ = FreeListAfterDelete(@, f),
                    !.replacer_ = rm.r,
                    !.page_table_ = MapErase(@, page_id),
                    !.disk = IF pg.is_dirty_ THEN DiskWrite(@, page_id, pg.data_) ELSE @,
                    !.pages_[f] = [pg EXCEPT !.page_id_ = INVALID_PAGE_ID,
                                             !.is_dirty_ = FALSE,
                                             !.data_ = 0]]]

\* =================================================================
\*                    Initial state and client calls
\* =================================================================
\* aux: the page evicted (NewPage, FetchPage), the dirty argument (UnpinPage),
\* the flag (SetEvictable), the victim's cohort (Evict)
Call(op, ret, aux) == [op |-> op, ret |-> ret, aux |-> aux]

B2I(x) == IF x THEN 1 ELSE 0

\* BPlusTree::BPlusTree: an empty tree; the header page holds no root, and the
\* leaf capacity is cut to internal_max_size - 1
NewTree(leaf_max_size, internal_max_size) ==
  [root_page_id_ |-> INVALID_PAGE_ID,
   header_root_ |-> INVALID_PAGE_ID,
   leaf_max_size_ |-> IF leaf_max_size < internal_max_size - 1
                         THEN leaf_max_size ELSE internal_max_size - 1,
   internal_max_size_ |-> internal_max_size,
   pages |-> <<>>]

\* the pairs the callers have put into the index and not taken out (0: absent)
NoPairs == [k \in TreeKeys |-> 0]

\* a thread outside every call: no latch held (w_: page write latches in the
\* order taken, r_: page read latches, rl_: its hold on root_page_id_latch_)
IdleThread ==
  [pc |-> "idle", op |-> "none", key |-> 0, w_ |-> <<>>, r_ |-> <<>>,
   rl_ |-> "none", ret |-> FALSE, sibs |-> 0, pending |-> <<>>]

\* a table with no tuple yet (tuples_: the slots in RID order, each with its
\* index key and its TupleMeta's is_deleted_; before: the tuples and the index
\* keys as they were when the transaction made its first write)
NoTuples == [tuples_ |-> <<>>, before |-> [tuples_ |-> <<>>, keys |-> {}]]

InitIndexWith(t) ==
  /\ tree = t
  /\ heap = NoTuples
  /\ kv = NoPairs
  /\ tree_ops = 0
  /\ thr = [th \in TreeThreads |-> IdleThread]

InitPoolWith(b) ==
  /\ pages_ = b.pages_
  /\ page_table_ = b.page_table_
  /\ free_list_ = b.free_list_
  /\ next_page_id_ = b.next_page_id_
  /\ replacer_ = b.replacer_
  /\ disk = b.disk
  /\ latch = [f \in Frames |-> 0]
  /\ guards = [g \in Guards |-> [alive |-> FALSE, kind |-> "basic",
                                 page_ |-> NoFrame, is_dirty_ |-> FALSE]]
  /\ held = [t \in Threads |-> [p \in PageIds |-> 0]]
  /\ owed = 0
  /\ accesses = [f \in 0 .. PoolSize |-> <<>>]
  /\ last = Call("init", 0, INVALID_PAGE_ID)

\* no request in any queue, every transaction growing and outside every call
InitLockWith(isolation_level, calls) ==
  /\ lq = [res \in Resources |-> [request_queue_ |-> <<>>, upgrading_ |-> INVALID_TXN_ID]]
  /\ txns = [t \in Txns |-> [state_ |-> "GROWING", isolation_level_ |-> isolation_level,
                             pc |-> "run", res |-> "table", ended |-> FALSE,
                             reason |-> "NONE", unlocked |-> FALSE,
                             lock_set_ |-> {},
                             write_set_ |-> <<>>, index_write_set_ |-> <<>>]]
  /\ lock_ops = calls

InitWith(b) ==
  /\ InitPoolWith(b)
  /\ InitIndexWith(NewTree(MaxLeafMax, MaxInternalMax))
  /\ InitLockWith("REPEATABLE_READ", 0)

Init == InitWith(NewPool(MaxK))

Resident(p) == p \in DOMAIN page_table_
FrameOf(p) == page_table_[p]
PinCount(p) == IF Resident(p) THEN pages_[FrameOf(p)].pin_count_ ELSE 0
Clock == replacer_.current_timestamp_

guardVars == <<latch, guards, owed, accesses>>

DoNewPage(t) ==
  /\ Exhausted(Bpm) \/ (next_page_id_ < MaxPages /\ Clock < MaxTime)
  /\ LET r == NewPage(Bpm)
     IN  /\ SetBpm(r.b)
         /\ held' = IF r.ret # NoFrame THEN [held EXCEPT ![t][r.page_id] = @ + 1] ELSE held
         /\ last' = Call("NewPage", r.ret, r.victim)
  /\ UNCHANGED guardVars

\* callers fetch ids that AllocatePage has handed out
DoFetchPage(t, p) ==
  /\ p < next_page_id_
  /\ IF Resident(p) THEN PinCount(p) < MaxPin /\ Clock < MaxTime
     ELSE Exhausted(Bpm) \/ Clock < MaxTime
  /\ LET r == FetchPage(Bpm, p)
     IN  /\ SetBpm(r.b)
         /\ held' = IF r.ret # NoFrame THEN [held EXCEPT ![t][p] = @ + 1] ELSE held
         /\ last' = Call(IF r.loaded THEN "FetchPageLoad" ELSE "FetchPage", r.ret, r.victim)
  /\ UNCHANGED guardVars

\* a thread unpins a page it has pinned; on a page nobody has pinned the call
\* is answered false (a thread never gives back a pin it does not hold)
DoUnpinPage(t, p, is_dirty) ==
  /\ held[t][p] > 0 \/ PinCount(p) = 0
  /\ LET r == UnpinPage(Bpm, p, is_dirty)
     IN  /\ SetBpm(r.b)
         /\ held' = IF r.ret THEN [held EXCEPT ![t][p] = @ - 1] ELSE held
         /\ last' = Call("UnpinPage", B2I(r.ret), B2I(is_dirty))
  /\ UNCHANGED guardVars

DoUnpinPagePtr(t, page) ==
  /\ IF page = NoFrame THEN TRUE
     ELSE IF pages_[page].pin_count_ = 0 THEN TRUE
     ELSE pages_[page].page_id_ \in PageIds /\ held[t][pages_[page].page_id_] > 0
  /\ LET r == UnpinPagePtr(Bpm, page)
         p == IF page = NoFrame THEN INVALID_PAGE_ID ELSE pages_[page].page_id_
     IN  /\ SetBpm(r.b)
         /\ held' = IF r.ret THEN [held EXCEPT ![t][p] = @ - 1] ELSE held
         /\ last' = Call("UnpinPagePtr", B2I(r.ret), INVALID_PAGE_ID)
  /\ UNCHANGED guardVars

\* the holder of a pin writes the page's bytes
DoWrite(t, p, v) ==
  /\ held[t][p] > 0
  /\ Resident(p)
  /\ pages_' = [pages_ EXCEPT ![FrameOf(p)].data_ = v]
  /\ last' = Call("Write", 0, INVALID_PAGE_ID)
  /\ UNCHANGED <<page_table_, free_list_, next_page_id_, replacer_, disk, held, guardVars>>

DoFlushPage(t, p) ==
  /\ LET r == FlushPage(Bpm, p)
     IN  /\ SetBpm(r.b)
         /\ last' = Call("FlushPage", B2I(r.ret), INVALID_PAGE_ID)
  /\ UNCHANGED <<held, guardVars>>

DoFlushAllPages(t) ==
  /\ SetBpm(FlushAllPages(Bpm))
  /\ last' = Call("FlushAllPages", 0, INVALID_PAGE_ID)
  /\ UNCHANGED <<held, guardVars>>

\* ret 2 stands for the exception that escapes DeletePage; the guard caps the
\* free list, which a throwing DeletePage lengthens on every call
DoDeletePage(t, p) ==
  /\ Len(free_list_) <= PoolSize
  /\ LET r == DeletePage(Bpm, p)
     IN  /\ SetBpm(r.b)
         /\ last' = Call("DeletePage", IF r.thrown THEN 2 ELSE B2I(r.ret),
                         INVALID_PAGE_ID)
  /\ UNCHANGED <<held, guardVars>>

Next ==
  /\ \E t \in Threads :
       \/ DoNewPage(t)
       \/ \E p \in PageIds : DoFetchPage(t, p)
       \/ \E p \in PageIds, d \in BOOLEAN : DoUnpinPage(t, p, d)
       \/ \E p \in PageIds, v \in 1 .. MaxVal : DoWrite(t, p, v)
       \/ \E p \in PageIds \cup {INVALID_PAGE_ID} : DoFlushPage(t, p)
       \/ DoFlushAllPages(t)
       \/ \E p \in PageIds : DoDeletePage(t, p)
  /\ UNCHANGED indexVars

Spec == Init /\ [][Next]_vars

\* the pool used through the UnpinPage(Page *) overload as well
NextPtr ==
  /\ \E t \in Threads :
       \/ DoNewPage(t)
       \/ \E p \in PageIds : DoFetchPage(t, p)
       \/ \E p \in PageIds : DoUnpinPage(t, p, FALSE)
       \/ \E f \in Frames \cup {NoFrame} : DoUnpinPagePtr(t, f)
       \/ \E p \in PageIds : DoDeletePage(t, p)
  /\ UNCHANGED indexVars

SpecPtr == Init /\ [][NextPtr]_vars

\* =================================================================
\*                 Page guards (Basic / Read / Write)
\* =================================================================
DeadGuard == [alive |-> FALSE, kind |-> "basic", page_ |-> NoFrame, is_dirty_ |-> FALSE]
MakeGuard(kind, page) == [alive |-> TRUE, kind |-> kind, page_ |-> page, is_dirty_ |-> FALSE]

\* that.page_ = nullptr; that.bpm_ = nullptr; that.is_dirty_ = false
InertKeepsPage(gd) == [gd EXCEPT !.is_dirty_ = FALSE]
Inert(gd) == [gd EXCEPT !.page_ = NoFrame, !.is_dirty_ = FALSE]

\* BasicPageGuard::Drop: calls = number of UnpinPage calls it made
BasicDrop(b, gd) ==
  IF gd.page_ = NoFrame THEN [b |-> b, g |-> gd, calls |-> 0]
  ELSE LET page_id == b.pages_[gd.page_].page_id_
       IN  IF page_id # INVALID_PAGE_ID
             THEN [b |-> UnpinPage(b, page_id, gd.is_dirty_).b,
                   g |-> Inert(gd), calls |-> 1]
             ELSE [b |-> b, g |-> Inert(gd), calls |-> 0]

\* RUnlatch / WUnlatch of the guarded page, done by Read/Write guards only
Unlatch(l, gd) ==
  IF gd.page_ = NoFrame \/ gd.kind = "basic" THEN l
  ELSE IF gd.kind = "read" THEN [l EXCEPT ![gd.page_] = @ - 1]
  ELSE [l EXCEPT ![gd.page_] = 0]

\* RLatch / WLatch can be taken now
CanLatch(l, kind, page) ==
  IF page = NoFrame \/ kind = "basic" THEN TRUE
  ELSE IF kind = "read" THEN l[page] >= 0
  ELSE l[page] = 0
Latch(l, kind, page) ==
  IF page = NoFrame \/ kind = "basic" THEN l
  ELSE IF kind = "read" THEN [l EXCEPT ![page] = @ + 1]
  ELSE [l EXCEPT ![page] = 0 - 1]

\* FetchPageBasic / FetchPageRead / FetchPageWrite construct guard g
GuardFetch(g, kind, p) ==
  /\ ~guards[g].alive
  /\ p < next_page_id_
  /\ IF Resident(p) THEN PinCount(p) < MaxPin /\ Clock < MaxTime
     ELSE Exhausted(Bpm) \/ Clock < MaxTime
  /\ LET r == FetchPage(Bpm, p)
     IN  /\ CanLatch(latch, kind, r.ret)
         /\ SetBpm(r.b)
         /\ latch' = Latch(latch, kind, r.ret)
         /\ guards' = [guards EXCEPT ![g] = MakeGuard(kind, r.ret)]
         /\ owed' = owed + (IF r.ret # NoFrame THEN 1 ELSE 0)
         /\ last' = Call("GuardFetch", r.ret, r.victim)
  /\ UNCHANGED <<held, accesses>>

\* NewPageGuarded constructs guard g
GuardNew(g) ==
  /\ ~guards[g].alive
  /\ Exhausted(Bpm) \/ (next_page_id_ < MaxPages /\ Clock < MaxTime)
  /\ LET r == NewPage(Bpm)
     IN  /\ SetBpm(r.b)
         /\ guards' = [guards EXCEPT ![g] = MakeGuard("basic", r.ret)]
         /\ owed' = owed + (IF r.ret # NoFrame THEN 1 ELSE 0)
         /\ last' = Call("GuardNew", r.ret, r.victim)
  /\ UNCHANGED <<held, latch, accesses>>

\* move constructors: g is constructed from h
GuardMoveCtor(g, h) ==
  /\ ~guards[g].alive
  /\ guards[h].alive
  /\ guards' = [guards EXCEPT ![g] = guards[h], ![h] = Inert(guards[h])]
  /\ last' = Call("MoveCtor", 0, INVALID_PAGE_ID)
  /\ UNCHANGED <<pages_, page_table_, free_list_, next_page_id_, replacer_, disk,
                 latch, held, owed, accesses>>

\* move assignment g = std::move(h), h = g included
GuardMoveAssign(g, h) ==
  /\ guards[g].alive
  /\ guards[h].alive
  /\ guards[g].kind = guards[h].kind
  /\ IF g = h
       THEN UNCHANGED <<pages_, page_table_, free_list_, next_page_id_, replacer_,
                        disk, latch, guards, owed>>
       ELSE LET d == BasicDrop(Bpm, guards[g])
            IN  /\ SetBpm(d.b)
                /\ latch' = Unlatch(latch, guards[g])
                /\ guards' = [guards EXCEPT ![g] = guards[h], ![h] = Inert(guards[h])]
                /\ owed' = owed - d.calls
  /\ last' = Call("MoveAssign", 0, INVALID_PAGE_ID)
  /\ UNCHANGED <<held, accesses>>

\* Drop() of any flavor: release the latch, then unpin
GuardDrop(g) ==
  /\ guards[g].alive
  /\ LET d == BasicDrop(Bpm, guards[g])
     IN  /\ SetBpm(d.b)
         /\ latch' = Unlatch(latch, guards[g])
         /\ guards' = [guards EXCEPT ![g] = d.g]
         /\ owed' = owed - d.calls
  /\ last' = Call("Drop", g, INVALID_PAGE_ID)
  /\ UNCHANGED <<held, accesses>>

\* destructor: Drop(), and the object is gone
GuardDtor(g) ==
  /\ guards[g].alive
  /\ LET d == BasicDrop(Bpm, guards[g])
     IN  /\ SetBpm(d.b)
         /\ latch' = Unlatch(latch, guards[g])
         /\ guards' = [guards EXCEPT ![g] = DeadGuard]
         /\ owed' = owed - d.calls
  /\ last' = Call("Dtor", 0, INVALID_PAGE_ID)
  /\ UNCHANGED <<held, accesses>>

\* AsMut / GetDataMut: marks the guard dirty (the bytes are written by the caller)
GuardAsMut(g) ==
  /\ guards[g].alive
  /\ guards[g].page_ # NoFrame
  /\ guards[g].kind # "read"
  /\ guards' = [guards EXCEPT ![g].is_dirty_ = TRUE]
  /\ last' = Call("AsMut", 0, INVALID_PAGE_ID)
  /\ UNCHANGED <<pages_, page_table_, free_list_, next_page_id_, replacer_, disk,
                 latch, held, owed, accesses>>

NextGuard ==
  /\ \/ \E g \in Guards, kind \in {"basic", "read", "write"}, p \in PageIds :
          GuardFetch(g, kind, p)
     \/ \E g \in Guards : GuardNew(g)
     \/ \E g, h \in Guards : GuardMoveCtor(g, h)
     \/ \E g, h \in Guards : GuardMoveAssign(g, h)
     \/ \E g \in Guards : GuardDrop(g)
     \/ \E g \in Guards : GuardDtor(g)
     \/ \E g \in Guards : GuardAsMut(g)
     \/ \E t \in Threads, p \in PageIds : DoDeletePage(t, p)
  /\ UNCHANGED indexVars

SpecGuard == Init /\ [][NextGuard]_vars

\* =================================================================
\*                     The replacer on its own
\* =================================================================
\* RecordAccess accepts every frame_id with 0 <= frame_id <= replacer_size_
ReplFrames == 0 .. PoolSize

InitRepl == \E k \in Ks : InitWith(NewPool(k))

poolVars == <<pages_, page_table_, free_list_, next_page_id_, disk, held, latch, guards, owed>>

ReplRecordAccess(f) ==
  /\ Clock < ReplMaxTime
  /\ replacer_' = RecordAccess(replacer_, f)
  /\ accesses' = [accesses EXCEPT ![f] = Append(@, Clock + 1)]
  /\ last' = Call("RecordAccess", f, INVALID_PAGE_ID)
  /\ UNCHANGED poolVars

ReplSetEvictable(f, b) ==
  /\ replacer_' = SetEvictable(replacer_, f, b)
  /\ last' = Call("SetEvictable", f, B2I(b))
  /\ UNCHANGED accesses
  /\ UNCHANGED poolVars

\* aux: 1 when the victim had reached k_ accesses, else 0
ReplEvict ==
  /\ LET e == Evict(replacer_)
     IN  /\ replacer_' = e.r
         /\ accesses' = IF e.ok THEN [accesses EXCEPT ![e.fid] = <<>>] ELSE accesses
         /\ last' = Call("Evict", e.fid,
                         IF e.ok /\ replacer_.node_store_[e.fid] = "lru" THEN 1 ELSE 0)
  /\ UNCHANGED poolVars

\* ret 2 stands for the exception thrown on a non-evictable frame
ReplRemove(f) ==
  /\ LET r == Remove(replacer_, f)
     IN  /\ replacer_' = r.r
         /\ accesses' = IF f \in DOMAIN replacer_.node_store_ /\ ~r.thrown
                           THEN [accesses EXCEPT ![f] = <<>>] ELSE accesses
         /\ last' = Call("Remove", IF r.thrown THEN 2 ELSE 0, INVALID_PAGE_ID)
  /\ UNCHANGED poolVars

NextRepl ==
  /\ \/ \E f \in ReplFrames : ReplRecordAccess(f)
     \/ \E f \in ReplFrames, b \in BOOLEAN : ReplSetEvictable(f, b)
     \/ ReplEvict
     \/ \E f \in ReplFrames : ReplRemove(f)
  /\ UNCHANGED indexVars

SpecRepl == InitRepl /\ [][NextRepl]_vars

\* ------------------------------------------------- structural sanity
\* every list node is tracked under its own list and cohort, once
ReplacerShapeOK ==
  LET r == replacer_
      fifoIds == {r.fifo_dl_[i].fid_ : i \in 1 .. Len(r.fifo_dl_)}
      lruIds  == {r.lru_dl_[i].fid_ : i \in 1 .. Len(r.lru_dl_)}
  IN  /\ Cardinality(fifoIds) = Len(r.fifo_dl_)
      /\ Cardinality(lruIds) = Len(r.lru_dl_)
      /\ fifoIds \cap lruIds = {}
      /\ DOMAIN r.node_store_ = fifoIds \cup lruIds
      /\ \A f \in fifoIds : r.node_store_[f] = "fifo"
      /\ \A f \in lruIds : r.node_store_[f] = "lru"
      /\ \A i \in 1 .. Len(r.fifo_dl_) :
           r.fifo_dl_[i].k_ < r.k_ /\ Len(r.fifo_dl_[i].history_) = r.fifo_dl_[i].k_
      /\ \A i \in 1 .. Len(r.lru_dl_) :
           r.lru_dl_[i].k_ >= r.k_ /\ Len(r.lru_dl_[i].history_) = r.k_
      /\ r.curr_size_ = Len(r.fifo_dl_) + Len(r.lru_dl_)
      /\ r.evictable_cnt_fifo_ >= 0 /\ r.evictable_cnt_lru_ >= 0

\* =================================================================
\*                            Properties
\* =================================================================
bpmVars == <<pages_, page_table_, free_list_, next_page_id_, replacer_, disk>>

Range(fn) == {fn[x] : x \in DOMAIN fn}
ListNodes(r) == Range(r.fifo_dl_) \cup Range(r.lru_dl_)
EvictableFrames(r) == {n.fid_ : n \in {m \in ListNodes(r) : m.is_evictable_}}
PinnedFrames == {f \in Frames : pages_[f].pin_count_ > 0}

C3_UnpinnedIsEvictable ==
  \A p \in DOMAIN page_table_ :
    \/ pages_[page_table_[p]].pin_count_ > 0
    \/ page_table_[p] \in EvictableFrames(replacer_)

\* C4: pin_count of every frame equals the number of live guards on it, every
\* pin taken by a guard is given back by exactly one UnpinPage call, and Drop
\* on a guard that holds no page changes nothing.
LiveGuards == {g \in Guards : guards[g].alive /\ guards[g].page_ # NoFrame}

C4_GuardPins ==
  /\ [](/\ \A f \in Frames :
             pages_[f].pin_count_ = Cardinality({g \in LiveGuards : guards[g].page_ = f})
        /\ owed = Cardinality(LiveGuards)
        /\ \A g \in LiveGuards :
             LET p == pages_[guards[g].page_].page_id_
             IN  p \in DOMAIN page_table_ /\ page_table_[p] = guards[g].page_)
  /\ [][(last'.op = "Drop" /\ guards[last'.ret].page_ = NoFrame) =>
          UNCHANGED <<bpmVars, latch, guards, owed>>]_vars

\* a move assignment has left one live guard, holding the only pin of its
\* page, next to an inert one
C4_Witness ==
  /\ last.op = "MoveAssign"
  /\ \E g, h \in Guards :
       /\ g # h
       /\ guards[g].alive /\ guards[g].page_ # NoFrame
       /\ pages_[guards[g].page_].pin_count_ = 1
       /\ guards[h].alive /\ guards[h].page_ = NoFrame

\* C5: a dirty bit goes from true to false only in FlushPage, FlushAllPages,
\* DeletePage, or when NewPage/FetchPage reuse the frame for another page, and
\* each time the page's bytes are on disk afterwards; UnpinPage never clears it.
C5_DirtyMonotone ==
  [][\A f \in Frames :
       (pages_[f].is_dirty_ /\ ~pages_'[f].is_dirty_) =>
         /\ last'.op \in {"FlushPage", "FlushAllPages", "DeletePage",
                          "NewPage", "FetchPageLoad"}
         /\ disk'[pages_[f].page_id_] = pages_[f].data_
         /\ last'.op \in {"NewPage", "FetchPageLoad"} =>
              (last'.ret = f /\ last'.aux = pages_[f].page_id_)]_vars

\* the only resident page is dirty and was just unpinned with dirty = false
C5_Witness ==
  /\ last = Call("UnpinPage", 1, 0)
  /\ Cardinality(DOMAIN page_table_) = 1
  /\ \A p \in DOMAIN page_table_ :
       pages_[page_table_[p]].is_dirty_ /\ pages_[page_table_[p]].pin_count_ = 0

\* C6: once a page's bytes are either flagged dirty or equal to its disk image
\* (as they are after unpin with dirty = true), no call other than a write by
\* a holder of the page changes the page's contents - the frame's bytes while
\* resident, the disk image otherwise - so eviction and re-fetch return them.
Content(p) == IF p \in DOMAIN page_table_ THEN pages_[page_table_[p]].data_ ELSE disk[p]
Synced(p) ==
  p \in DOMAIN page_table_ =>
    (pages_[page_table_[p]].is_dirty_ \/ pages_[page_table_[p]].data_ = disk[p])

C6_NoLostWrite ==
  [][\A p \in PageIds :
       (Synced(p) /\ ~(last'.op = "Write" /\ PinCount(p) > 0)) =>
         /\ Content(p)' = Content(p)
         /\ Synced(p)']_vars

\* a page written earlier has been read back from disk with its bytes, and
\* the page evicted to make room for it has its written bytes on disk
C6_Witness ==
  /\ last.op = "FetchPageLoad"
  /\ last.ret # NoFrame
  /\ last.aux # INVALID_PAGE_ID
  /\ pages_[last.ret].data_ # 0
  /\ disk[last.aux] # 0

\* C7: NewPage, and FetchPage of a non-resident page, return nullptr exactly
\* when the free list is empty and no frame is evictable, which is when every
\* frame is pinned; such a call changes nothing in the pool; as soon as some
\* frame is unpinned the call succeeds.
PoolFull == free_list_ = <<>> /\ EvictableFrames(replacer_) = {}

C8_SingleFrame ==
  /\ \A p, q \in DOMAIN page_table_ : page_table_[p] = page_table_[q] => p = q
  /\ \A p \in DOMAIN page_table_ : pages_[page_table_[p]].page_id_ = p
  /\ \A p \in PageIds : PinCount(p) = held[1][p] + held[2][p]

\* both threads hold a pin on the same page after a FetchPage
C8_Witness ==
  /\ last.op = "FetchPage"
  /\ \E p \in DOMAIN page_table_ :
       /\ held[1][p] = 1 /\ held[2][p] = 1
       /\ last.ret = page_table_[p]
       /\ pages_[page_table_[p]].pin_count_ = 2

\* C9: Evict returns nothing iff no tracked frame is evictable; otherwise the
\* victim is, among the evictable frames with fewer than k_ accesses, the one
\* whose first access is oldest, and if there is none, the evictable frame
\* whose k_-th most recent access is oldest; the victim is untracked afterwards.
KthRecent(f) == accesses[f][Len(accesses[f]) - replacer_.k_ + 1]
Young == {f \in EvictableFrames(replacer_) : Len(accesses[f]) < replacer_.k_}
ExpectedVictim ==
  IF Young # {}
    THEN CHOOSE f \in Young : \A g \in Young : accesses[f][1] <= accesses[g][1]
    ELSE CHOOSE f \in EvictableFrames(replacer_) :
           \A g \in EvictableFrames(replacer_) : KthRecent(f) <= KthRecent(g)

C9_Victim ==
  LET e == Evict(replacer_)
  IN  /\ e.ok <=> EvictableFrames(replacer_) # {}
      /\ e.ok => /\ e.fid = ExpectedVictim
                 /\ e.fid \notin DOMAIN e.r.node_store_
                 /\ e.fid \notin {n.fid_ : n \in ListNodes(e.r)}
      /\ ~e.ok => e.r = replacer_ /\ e.fid = NoFrame

\* Evict has just taken a frame with k_ accesses although another frame with
\* k_ accesses, accessed more recently, was evictable too
C9_Witness ==
  /\ last.op = "Evict"
  /\ last.ret # NoFrame
  /\ last.aux = 1
  /\ \E i \in 1 .. Len(replacer_.lru_dl_) :
       /\ replacer_.lru_dl_[i].is_evictable_
       /\ replacer_.lru_dl_[i].k_ > replacer_.k_

\* C10: Size() is the number of tracked frames whose evictable flag is set;
\* SetEvictable with the current flag value, or on an untracked frame,
\* changes nothing.
C10_Size ==
  /\ Size(replacer_) = Cardinality(EvictableFrames(replacer_))
  /\ EvictableFrames(replacer_) \subseteq DOMAIN replacer_.node_store_
  /\ \A f \in ReplFrames, b \in BOOLEAN :
       (f \notin DOMAIN replacer_.node_store_ \/ NodeOf(replacer_, f).is_evictable_ = b)
         => SetEvictable(replacer_, f, b) = replacer_

\* an evictable frame has just made its k_-th access (k_ > 1)
C10_Witness ==
  /\ last.op = "RecordAccess"
  /\ replacer_.k_ > 1
  /\ last.ret \in DOMAIN replacer_.node_store_
  /\ NodeOf(replacer_, last.ret).k_ = replacer_.k_
  /\ NodeOf(replacer_, last.ret).is_evictable_
  /\ Size(replacer_) = 2

\* =================================================================
\*          B+ tree pages (leaf and internal) as pure operators
\* =================================================================
\* A page is [page_type_, size_, max_size_, next_page_id_, array_]; array_ is
\* the sequence of the slots written so far, slot i of the code being
\* array_[i + 1].  A slot never written, or cut off by a later SetSize, reads
\* as Junk: the bytes the page held before are not part of the tree.
Junk == [k |-> INVALID_PAGE_ID - 1, v |-> INVALID_PAGE_ID - 1]
Slot(arr, i) == IF 0 <= i /\ i < Len(arr) THEN arr[i + 1] ELSE Junk
Put(arr, i, e) ==
  [j \in 1 .. (IF i + 1 > Len(arr) THEN i + 1 ELSE Len(arr)) |->
     IF j = i + 1 THEN e ELSE Slot(arr, j - 1)]
\* std::copy / std::copy_backward of n slots of src, from st, to des_st of dst
CopySlots(dst, des_st, src, st, n) ==
  [j \in 1 .. (IF des_st + n > Len(dst) THEN des_st + n ELSE Len(dst)) |->
     IF des_st < j /\ j <= des_st + n THEN Slot(src, st + (j - 1 - des_st))
     ELSE Slot(dst, j - 1)]

\* BPlusTreePage: GetSize / SetSize / IncreaseSize / GetMaxSize / GetMinSize
GetSize(pg) == pg.size_
GetMaxSize(pg) == pg.max_size_
SetSize(pg, n) ==
  [pg EXCEPT !.size_ = n, !.array_ = [j \in 1 .. n |-> Slot(pg.array_, j - 1)]]
IncreaseSize(pg, d) == SetSize(pg, pg.size_ + d)
GetMinSize(pg) == (pg.max_size_ + 1) \div 2
IsLeafPage(pg) == pg.page_type_ = "leaf"
KeyAt(pg, i) == Slot(pg.array_, i).k
ValueAt(pg, i) == Slot(pg.array_, i).v
SetKeyAt(pg, i, key) ==
  [pg EXCEPT !.array_ = Put(pg.array_, i, [k |-> key, v |-> Slot(pg.array_, i).v])]

\* std::lower_bound over the slots [first, first + len) of arr: the first slot
\* whose key is not less than key, found by halving as the library does
RECURSIVE LowerBound(_, _, _, _)
LowerBound(arr, first, len, key) ==
  IF len <= 0 THEN first
  ELSE LET half == len \div 2
           mid == first + half
       IN  IF Slot(arr, mid).k < key
             THEN LowerBound(arr, mid + 1, len - half - 1, key)
             ELSE LowerBound(arr, first, half, key)

\* Init of a leaf or an internal page; a page fresh from NewPage is zeroed
PageInit(type, max_size) ==
  [page_type_ |-> type, size_ |-> 0, max_size_ |-> max_size,
   next_page_id_ |-> INVALID_PAGE_ID, array_ |-> <<>>]

\* B_PLUS_TREE_LEAF_PAGE_TYPE::GetIndex
GetIndex(pg, key) == LowerBound(pg.array_, 0, pg.size_, key)
\* B_PLUS_TREE_LEAF_PAGE_TYPE::Exist: [found, index, value]
Exist(pg, key) ==
  LET target_in_array == GetIndex(pg, key)
  IN  IF target_in_array = GetSize(pg) \/ KeyAt(pg, target_in_array) # key
        THEN [found |-> FALSE, index |-> target_in_array, value |-> 0]
        ELSE [found |-> TRUE, index |-> target_in_array,
              value |-> ValueAt(pg, target_in_array)]

\* Insert of both page kinds, after the index was found: [ok, pg]
PageInsertAt(pg, index, key, value) ==
  IF index = GetSize(pg)
    THEN [ok |-> TRUE,
          pg |-> LET p1 == IncreaseSize(pg, 1)
                 IN  [p1 EXCEPT !.array_ = Put(p1.array_, index, [k |-> key, v |-> value])]]
  ELSE IF KeyAt(pg, index) = key THEN [ok |-> FALSE, pg |-> pg]
  ELSE [ok |-> TRUE,
        pg |-> LET p1 == IncreaseSize(pg, 1)
                   moved == CopySlots(p1.array_, index + 1, p1.array_, index,
                                      GetSize(p1) - index)
               IN  SetSize([p1 EXCEPT !.array_ = Put(moved, index, [k |-> key, v |-> value])],
                           GetSize(p1))]
\* B_PLUS_TREE_LEAF_PAGE_TYPE::Insert
LeafInsert(pg, key, value) ==
  IF GetSize(pg) = GetMaxSize(pg) THEN [ok |-> FALSE, pg |-> pg]
  ELSE PageInsertAt(pg, GetIndex(pg, key), key, value)
\* a split that leaves one slot behind, whatever the size
LeafGetBoundFirst(idx, size) == [bound |-> 1, insert_left |-> FALSE]
\* a split at the lower middle, wherever the key goes
LeafGetBoundLow(idx, size) ==
  [bound |-> (size - 1) \div 2, insert_left |-> idx <= (size - 1) \div 2]
\* B_PLUS_TREE_LEAF_PAGE_TYPE::GetBound: [bound, insert_left]
LeafGetBound(idx, size) ==
  IF idx <= (size - 1) \div 2
    THEN [bound |-> (size - 1) \div 2, insert_left |-> TRUE]
    ELSE [bound |-> (size + 1) \div 2, insert_left |-> FALSE]

\* MoveHalfTo / CopyHalf of both page kinds: n slots of pg from st into
\* right_page from des_st; the result is the new right_page
MoveHalfTo(pg, right_page, st, des_st, n) ==
  [right_page EXCEPT !.array_ = CopySlots(right_page.array_, des_st, pg.array_, st, n)]
\* Move of both page kinds
Move(pg, st, direc) ==
  IF direc = 1
    THEN [pg EXCEPT !.array_ = CopySlots(pg.array_, st - GetSize(pg), pg.array_, 0, GetSize(pg))]
    ELSE [pg EXCEPT !.array_ = CopySlots(pg.array_, 0, pg.array_, st, GetSize(pg) - st)]
\* RemoveAt of both page kinds
PageRemoveAt(pg, idx) ==
  IncreaseSize([pg EXCEPT !.array_ = CopySlots(pg.array_, idx, pg.array_, idx + 1,
                                               GetSize(pg) - idx - 1)], 0 - 1)

\* B_PLUS_TREE_INTERNAL_PAGE_TYPE::InsertIndex
InsertIndex(pg, key, isRoot) ==
  LowerBound(pg.array_, isRoot, GetSize(pg) - isRoot, key)
\* B_PLUS_TREE_INTERNAL_PAGE_TYPE::Insert
InternalInsert(pg, key, page_id, isRoot) ==
  IF GetSize(pg) = GetMaxSize(pg) THEN [ok |-> FALSE, pg |-> pg]
  ELSE PageInsertAt(pg, InsertIndex(pg, key, isRoot), key, page_id)
\* B_PLUS_TREE_INTERNAL_PAGE_TYPE::FindChild: [idx, child]
FindChild(pg, key) ==
  LET target == LowerBound(pg.array_, 1, GetSize(pg) - 1, key)
  IN  IF target = GetSize(pg)
        THEN [idx |-> GetSize(pg) - 1, child |-> ValueAt(pg, GetSize(pg) - 1)]
      ELSE IF KeyAt(pg, target) = key
        THEN [idx |-> target, child |-> ValueAt(pg, target)]
      ELSE [idx |-> target - 1, child |-> ValueAt(pg, target - 1)]
\* B_PLUS_TREE_INTERNAL_PAGE_TYPE::RootInit; KeyType() is the zero key
RootInit(pg, page_id_1, key, page_id_2) ==
  SetSize([pg EXCEPT !.array_ = Put(Put(pg.array_, 0, [k |-> 0, v |-> page_id_1]),
                                    1, [k |-> key, v |-> page_id_2])], 2)
\* B_PLUS_TREE_INTERNAL_PAGE_TYPE::GetBound
InternalGetBound(idx, size) ==
  IF idx <= size \div 2
    THEN [bound |-> size \div 2, insert_left |-> TRUE]
    ELSE [bound |-> size \div 2 + 1, insert_left |-> FALSE]

\* =================================================================
\*                 BPlusTree: the operations, run alone
\* =================================================================
\* tree.pages[p] is the content of page p, the pages being numbered 1, 2, ...
\* in the order NewPageGuarded hands them out (page 0 is the header page, of
\* which only root_page_id_ is used: tree.header_root_).
ZeroPage ==
  [page_type_ |-> "invalid", size_ |-> 0, max_size_ |-> 0, next_page_id_ |-> 0,
   array_ |-> <<>>]
Pg(t, p) == IF p \in DOMAIN t.pages THEN t.pages[p] ELSE ZeroPage
SetPg(t, p, pg) == IF p \in DOMAIN t.pages THEN [t EXCEPT !.pages[p] = pg] ELSE t
\* bpm_->NewPageGuarded: the next page id, and the page zeroed
NewPageId(t) == Len(t.pages) + 1
NewPageGuarded(t) == [t EXCEPT !.pages = Append(@, ZeroPage)]
IsEmpty(t) == t.root_page_id_ = INVALID_PAGE_ID
Back(s) == s[Len(s)]
PopBack(s) == SubSeq(s, 1, Len(s) - 1)
\* std::unordered_map::operator[]: a missing key reads as 0
PosOf(pos, p) == IF p \in DOMAIN pos THEN pos[p] ELSE 0

\* GetLeafAndUpdate: the pages from the root to the leaf of key (write_set_),
\* and the slot each was reached through (pos)
RECURSIVE GetLeafFrom(_, _, _, _, _, _)
GetLeafFrom(t, page_id, key, write_set_, pos, fuel) ==
  LET node == Pg(t, page_id)
      ws == Append(write_set_, page_id)
  IN  IF IsLeafPage(node) \/ fuel = 0 THEN [write_set_ |-> ws, pos |-> pos]
      ELSE LET c == FindChild(node, key)
           IN  GetLeafFrom(t, c.child, key, ws, (c.child :> c.idx) @@ pos, fuel - 1)
GetLeafAndUpdate(t, key) ==
  GetLeafFrom(t, t.root_page_id_, key, <<>>, <<>>, Len(t.pages))

\* GetValue: [found, value]
GetValue(t, key) ==
  IF IsEmpty(t) THEN [found |-> FALSE, value |-> 0]
  ELSE LET e == Exist(Pg(t, Back(GetLeafAndUpdate(t, key).write_set_)), key)
       IN  [found |-> e.found, value |-> e.value]

\* NewRootPage: the first leaf, holding the one pair
NewRootPage(t, key, value) ==
  LET id == NewPageId(t)
      t1 == NewPageGuarded(t)
  IN  [SetPg(t1, id, LeafInsert(PageInit("leaf", t.leaf_max_size_), key, value).pg)
         EXCEPT !.root_page_id_ = id, !.header_root_ = id]

\* Split: a new page takes the slots of cur_page from right_start on
Split(t, cur_id, right_start) ==
  LET id == NewPageId(t)
      t1 == NewPageGuarded(t)
      cur_page == Pg(t, cur_id)
      max_size == IF IsLeafPage(cur_page) THEN t.leaf_max_size_ ELSE t.internal_max_size_
      n == GetSize(cur_page) - right_start
      right_page == SetSize(MoveHalfTo(cur_page, PageInit(cur_page.page_type_, max_size),
                                       right_start, 0, n), n)
  IN  [t |-> SetPg(SetPg(t1, id, right_page), cur_id, SetSize(cur_page, right_start)),
       right_page_id |-> id]

\* InsertInternal: (key, page_id) goes into the parents left in write_set_,
\* splitting the full ones, and into a new root when none is left: [t, ret]
RECURSIVE InsertInternal(_, _, _, _)
InsertInternal(t, write_set_, key, page_id) ==
  IF write_set_ = <<>>
    THEN LET new_root_page_id == NewPageId(t)
             t1 == NewPageGuarded(t)
             root_page == RootInit(PageInit("internal", t.internal_max_size_),
                                   t.root_page_id_, key, page_id)
         IN  [t |-> [SetPg(t1, new_root_page_id, root_page)
                       EXCEPT !.root_page_id_ = new_root_page_id,
                              !.header_root_ = new_root_page_id],
              ret |-> TRUE]
  ELSE LET cur_id == Back(write_set_)
           cur_page == Pg(t, cur_id)
       IN  IF GetSize(cur_page) < GetMaxSize(cur_page)
             THEN LET r == InternalInsert(cur_page, key, page_id, 1)
                  IN  [t |-> SetPg(t, cur_id, r.pg), ret |-> r.ok]
           ELSE LET idx == InsertIndex(cur_page, key, 0)
                    b == InternalGetBound(idx, GetMaxSize(cur_page))
                    s == Split(t, cur_id, b.bound)
                    t2 == IF b.insert_left
                            THEN SetPg(s.t, cur_id,
                                       InternalInsert(Pg(s.t, cur_id), key, page_id, 1).pg)
                            ELSE SetPg(s.t, s.right_page_id,
                                       InternalInsert(Pg(s.t, s.right_page_id), key, page_id, 0).pg)
                IN  InsertInternal(t2, PopBack(write_set_),
                                   KeyAt(Pg(t2, s.right_page_id), 0), s.right_page_id)

\* the pair goes into the half of the split leaf its index says
InsertIntoHalf(s, cur_id, key, value, insert_left) ==
  IF insert_left
    THEN SetPg(s.t, cur_id, LeafInsert(Pg(s.t, cur_id), key, value).pg)
    ELSE SetPg(s.t, s.right_page_id, LeafInsert(Pg(s.t, s.right_page_id), key, value).pg)
\* the new leaf goes into the leaf chain behind the one it was split from
LinkLeaves(t, cur_id, right_page_id) ==
  SetPg(SetPg(t, right_page_id,
              [Pg(t, right_page_id) EXCEPT !.next_page_id_ = Pg(t, cur_id).next_page_id_]),
        cur_id, [Pg(t, cur_id) EXCEPT !.next_page_id_ = right_page_id])
InsertUp(t, write_set_, right_page_id) ==
  InsertInternal(t, write_set_, KeyAt(Pg(t, right_page_id), 0), right_page_id)
InsertSplit(s, b, write_set_, key, value) ==
  InsertUp(LinkLeaves(InsertIntoHalf(s, Back(write_set_), key, value, b.insert_left),
                      Back(write_set_), s.right_page_id),
           PopBack(write_set_), s.right_page_id)
InsertAtLeafPage(t, write_set_, e, key, value) ==
  IF e.found THEN [t |-> t, ret |-> FALSE]
  ELSE IF GetSize(Pg(t, Back(write_set_))) < GetMaxSize(Pg(t, Back(write_set_)))
    THEN [t |-> SetPg(t, Back(write_set_), LeafInsert(Pg(t, Back(write_set_)), key, value).pg),
          ret |-> LeafInsert(Pg(t, Back(write_set_)), key, value).ok]
  ELSE InsertSplit(Split(t, Back(write_set_),
                         LeafGetBound(e.index, GetSize(Pg(t, Back(write_set_)))).bound),
                   LeafGetBound(e.index, GetSize(Pg(t, Back(write_set_)))),
                   write_set_, key, value)
InsertFrom(t, write_set_, key, value) ==
  InsertAtLeafPage(t, write_set_, Exist(Pg(t, Back(write_set_)), key), key, value)
\* Insert: [t, ret]
Insert(t, key, value) ==
  IF IsEmpty(t) THEN [t |-> NewRootPage(t, key, value), ret |-> TRUE]
  ELSE InsertFrom(t, GetLeafAndUpdate(t, key).write_set_, key, value)

\* RemoveRoot
RemoveRoot(t, page_id) == [t EXCEPT !.root_page_id_ = page_id, !.header_root_ = page_id]

\* the sibling a page short of entries turns to: the next child of the parent,
\* or the one before for the last child
SiblingOf(parent_page, index_in_parent) ==
  IF index_in_parent = GetSize(parent_page) - 1
    THEN ValueAt(parent_page, index_in_parent - 1)
    ELSE ValueAt(parent_page, index_in_parent + 1)
\* merge: every slot of right_page goes behind those of cur_page: [cur, right]
MergePages(cur_page, right_page) ==
  LET total_size == GetSize(cur_page) + GetSize(right_page)
      c1 == MoveHalfTo(right_page, cur_page, 0, GetSize(cur_page), GetSize(right_page))
  IN  [cur |-> SetSize(c1, total_size), right |-> SetSize(right_page, 0)]
\* steal: the two pages share their slots, total_size / 2 going to the later
\* one; right_page is the sibling, before cur_page when is_last: [cur, right]
StealPages(cur_page, right_page, is_last) ==
  LET total_size == GetSize(cur_page) + GetSize(right_page)
      idx_half == total_size \div 2
  IN  IF is_last
        THEN LET c1 == Move(cur_page, idx_half, 1)
                 c2 == MoveHalfTo(right_page, c1, total_size - idx_half, 0,
                                  idx_half - GetSize(cur_page))
             IN  [cur |-> SetSize(c2, idx_half),
                  right |-> SetSize(right_page, total_size - idx_half)]
        ELSE LET c1 == MoveHalfTo(right_page, cur_page, 0, GetSize(cur_page),
                                  GetSize(right_page) - idx_half)
                 r1 == Move(right_page, GetSize(right_page) - idx_half, 0)
             IN  [cur |-> SetSize(c1, total_size - idx_half),
                  right |-> SetSize(r1, idx_half)]

\* RemoveInternal: the parents left in write_set_ take the new key and, after a
\* merge, lose the slot del_index; a parent short of entries merges or steals.
\* [t, sibs]: the tree, and the siblings write-latched on the way, sibs first
RECURSIVE RemoveInternal(_, _, _, _, _, _, _)
RemoveInternal(t, write_set_, pos, del_index, new_key, is_merge, sibs) ==
  IF write_set_ = <<>> THEN [t |-> t, sibs |-> sibs]
  ELSE
    LET cur_id == Back(write_set_)
        ws == PopBack(write_set_)
        c0 == SetKeyAt(Pg(t, cur_id), del_index - 1, new_key)
        cur_page == IF is_merge THEN PageRemoveAt(c0, del_index) ELSE c0
        t1 == SetPg(t, cur_id, cur_page)
    IN  IF cur_id = t.root_page_id_
          THEN [t |-> IF GetSize(cur_page) = 1 THEN RemoveRoot(t1, ValueAt(cur_page, 0))
                      ELSE t1,
                sibs |-> sibs]
        ELSE IF GetSize(cur_page) >= GetMinSize(cur_page) THEN [t |-> t1, sibs |-> sibs]
        ELSE
          LET parent_id == Back(ws)
              parent_page == Pg(t1, parent_id)
              index_in_parent == PosOf(pos, cur_id)
              is_last == index_in_parent = GetSize(parent_page) - 1
              sibling_page_id == SiblingOf(parent_page, index_in_parent)
              right_page == Pg(t1, sibling_page_id)
              total_size == GetSize(cur_page) + GetSize(right_page)
              sibs1 == Append(sibs, sibling_page_id)
          IN  IF total_size <= GetMaxSize(cur_page)
                THEN LET di == IF is_last THEN index_in_parent ELSE index_in_parent + 1
                         m == IF is_last THEN MergePages(right_page, cur_page)
                                         ELSE MergePages(cur_page, right_page)
                         keep_id == IF is_last THEN sibling_page_id ELSE cur_id
                         gone_id == IF is_last THEN cur_id ELSE sibling_page_id
                         t2 == SetPg(SetPg(t1, keep_id, m.cur), gone_id, m.right)
                         t3 == SetPg(t2, parent_id,
                                     SetKeyAt(Pg(t2, parent_id), di - 1, KeyAt(m.cur, 0)))
                     IN  RemoveInternal(t3, ws, pos, di, KeyAt(m.cur, 0), TRUE, sibs1)
              ELSE LET s == StealPages(cur_page, right_page, is_last)
                       t2 == SetPg(SetPg(t1, cur_id, s.cur), sibling_page_id, s.right)
                       p1 == IF is_last
                               THEN SetKeyAt(SetKeyAt(Pg(t2, parent_id), index_in_parent,
                                                      KeyAt(s.cur, 0)),
                                             index_in_parent - 1, KeyAt(s.right, 0))
                               ELSE SetKeyAt(SetKeyAt(Pg(t2, parent_id), index_in_parent + 1,
                                                      KeyAt(s.right, 0)),
                                             index_in_parent, KeyAt(s.cur, 0))
                       t3 == SetPg(t2, parent_id, p1)
                   IN  IF is_last
                         THEN RemoveInternal(t3, ws, pos, index_in_parent,
                                             KeyAt(s.right, 0), FALSE, sibs1)
                         ELSE RemoveInternal(t3, ws, pos, index_in_parent + 1,
                                             KeyAt(s.cur, 0), FALSE, sibs1)

\* RemoveLeaf: the leaf at the back of write_set_ is short of entries: [t, sibs]
RemoveLeaf(t, write_set_, pos) ==
  LET cur_id == Back(write_set_)
      ws == PopBack(write_set_)
      cur_page == Pg(t, cur_id)
      parent_id == Back(ws)
      parent_page == Pg(t, parent_id)
      index_in_parent == PosOf(pos, cur_id)
      is_last == index_in_parent = GetSize(parent_page) - 1
      sibling_page_id == SiblingOf(parent_page, index_in_parent)
      right_page == Pg(t, sibling_page_id)
      total_size == GetSize(cur_page) + GetSize(right_page)
  IN  IF total_size <= GetMaxSize(cur_page)
        THEN LET del_index == IF is_last THEN index_in_parent ELSE index_in_parent + 1
                 m == IF is_last THEN MergePages(right_page, cur_page)
                                 ELSE MergePages(cur_page, right_page)
                 keep_id == IF is_last THEN sibling_page_id ELSE cur_id
                 gone_id == IF is_last THEN cur_id ELSE sibling_page_id
                 kept == [m.cur EXCEPT !.next_page_id_ = m.right.next_page_id_]
                 t2 == SetPg(SetPg(t, keep_id, kept), gone_id, m.right)
             IN  RemoveInternal(t2, ws, pos, del_index, KeyAt(kept, 0), TRUE,
                                <<sibling_page_id>>)
      ELSE LET s == StealPages(cur_page, right_page, is_last)
               t2 == SetPg(SetPg(t, cur_id, s.cur), sibling_page_id, s.right)
           IN  [t |-> SetPg(t2, parent_id,
                            IF is_last
                              THEN SetKeyAt(Pg(t2, parent_id), index_in_parent,
                                            KeyAt(s.cur, 0))
                              ELSE SetKeyAt(Pg(t2, parent_id), index_in_parent + 1,
                                            KeyAt(s.right, 0))),
                sibs |-> <<sibling_page_id>>]

\* Remove: [t, sibs]
RemoveRun(t, key) ==
  IF IsEmpty(t) THEN [t |-> t, sibs |-> <<>>]
  ELSE
    LET ctx == GetLeafAndUpdate(t, key)
        leaf_id == Back(ctx.write_set_)
        e == Exist(Pg(t, leaf_id), key)
    IN  IF ~e.found THEN [t |-> t, sibs |-> <<>>]
        ELSE
          LET leaf_page == PageRemoveAt(Pg(t, leaf_id), e.index)
              t1 == SetPg(t, leaf_id, leaf_page)
          IN  IF GetSize(leaf_page) >= GetMinSize(leaf_page) THEN [t |-> t1, sibs |-> <<>>]
              ELSE IF leaf_id = t.root_page_id_
                THEN [t |-> IF GetSize(leaf_page) = 0 THEN RemoveRoot(t1, INVALID_PAGE_ID)
                            ELSE t1,
                      sibs |-> <<>>]
              ELSE RemoveLeaf(t1, ctx.write_set_, ctx.pos)
TreeRemove(t, key) == RemoveRun(t, key).t

\* ----------------------------------------------------------- IndexIterator
\* An iterator is [cur_page_id_, index_]; the one built without arguments
\* (End(), Begin() of an empty tree) is on no page.
EndIterator == [cur_page_id_ |-> INVALID_PAGE_ID, index_ |-> 0 - 1]
\* Begin(): down the first child of every page from the root the header names
RECURSIVE LeftmostLeaf(_, _, _)
LeftmostLeaf(t, page_id, fuel) ==
  IF IsLeafPage(Pg(t, page_id)) \/ fuel = 0 THEN page_id
  ELSE LeftmostLeaf(t, ValueAt(Pg(t, page_id), 0), fuel - 1)
Begin(t) ==
  IF t.header_root_ = INVALID_PAGE_ID THEN EndIterator
  ELSE [cur_page_id_ |-> LeftmostLeaf(t, t.header_root_, Len(t.pages)), index_ |-> 0]
\* IsEnd: on the last leaf, at or past its capacity
IsEnd(t, it) ==
  LET cur_page == Pg(t, it.cur_page_id_)
  IN  cur_page.next_page_id_ = INVALID_PAGE_ID /\ it.index_ >= GetMaxSize(cur_page)
\* operator*: the slot the iterator is at
Deref(t, it) == Slot(Pg(t, it.cur_page_id_).array_, it.index_)
\* operator++
Advance(t, it) ==
  LET cur_page == Pg(t, it.cur_page_id_)
  IN  IF cur_page.next_page_id_ = INVALID_PAGE_ID
        THEN [it EXCEPT !.index_ = IF it.index_ + 1 < GetMaxSize(cur_page)
                                      THEN it.index_ + 1 ELSE GetMaxSize(cur_page)]
      ELSE IF it.index_ = GetMaxSize(cur_page) - 1
        THEN [cur_page_id_ |-> cur_page.next_page_id_, index_ |-> 0]
      ELSE [it EXCEPT !.index_ = it.index_ + 1]
\* for (it = Begin(); !it.IsEnd(); ++it) visit(*it): the slots visited, in
\* order; an iterator on no page visits nothing
RECURSIVE VisitFrom(_, _, _)
VisitFrom(t, it, fuel) ==
  IF it.cur_page_id_ = INVALID_PAGE_ID \/ fuel = 0 \/ IsEnd(t, it) THEN <<>>
  ELSE <<Deref(t, it)>> \o VisitFrom(t, Advance(t, it), fuel - 1)
Visited(t) == VisitFrom(t, Begin(t), Len(t.pages) * (MaxLeafMax + 2))

\* ------------------------------------------------ the tree used by one thread
bpmAndGuardVars == <<replacer_, pages_, page_table_, free_list_, next_page_id_, disk,
                     latch, guards, held, owed, accesses>>
bpmAllVarsNoLock == <<bpmAndGuardVars, heap>>
bpmAllVars == <<bpmAllVarsNoLock, lockVars>>

InitTree ==
  /\ InitPoolWith(NewPool(MaxK))
  /\ \E lm \in LeafMaxes, im \in InternalMaxes : InitIndexWith(NewTree(lm, im))
  /\ InitLockWith("REPEATABLE_READ", 0)

\* ret: what Insert returned
DoInsert(key, value) ==
  LET r == Insert(tree, key, value)
  IN  /\ tree_ops < MaxTreeOps
      /\ tree' = r.t
      /\ kv' = IF r.ret THEN [kv EXCEPT ![key] = value] ELSE kv
      /\ tree_ops' = tree_ops + 1
      /\ last' = Call("Insert", B2I(r.ret), key)
      /\ UNCHANGED <<bpmAllVars, thr>>

DoRemove(key) ==
  /\ tree_ops < MaxTreeOps
  /\ tree' = TreeRemove(tree, key)
  /\ kv' = [kv EXCEPT ![key] = 0]
  /\ tree_ops' = tree_ops + 1
  /\ last' = Call("Remove", 0, key)
  /\ UNCHANGED <<bpmAllVars, thr>>

NextTree ==
  \/ \E key \in TreeKeys : DoInsert(key, key + 1)
  \/ \E key \in TreeKeys : DoRemove(key)

\* every key goes with the one value key + 1, as the tests pair them (RID(key))
SpecTree == InitTree /\ [][NextTree]_vars

\* ---- a tree filled in key order: Insert(1), Insert(2), ... by one thread
InitSeq ==
  /\ InitPoolWith(NewPool(MaxK))
  /\ \E lm \in 2 .. SeqLeafMax, im \in 3 .. SeqInternalMax :
       InitIndexWith(NewTree(lm, im))
  /\ InitLockWith("REPEATABLE_READ", 0)
SeqInsert ==
  /\ tree_ops < SeqKeys
  /\ \E r \in {Insert(tree, tree_ops + 1, tree_ops + 1)} :
       /\ tree' = r.t
       /\ last' = Call("Insert", B2I(r.ret), tree_ops + 1)
  /\ tree_ops' = tree_ops + 1
  /\ UNCHANGED <<bpmAllVars, kv, thr>>
SpecSeq == InitSeq /\ [][SeqInsert]_vars

\* =================================================================
\*                 BPlusTree called by several threads
\* =================================================================
\* A call is a chain of steps, one per latch it may have to wait for: the
\* header page latch (FetchHeaderWrite, Begin), root_page_id_latch_, and the
\* latch of each page Fetch{Read,Write} is called on. What a call does between
\* two waits is part of the step that ends the first wait. The pages a writer
\* changes stay write-latched, or out of every other thread's reach, until the
\* call returns, so the step that takes the last latch applies the changes.
HEADER_PAGE_ID == 0
RootIdLatch == 0 - 3       \* stands for root_page_id_latch_ among the page ids

HeldIn(s, p) == \E i \in 1 .. Len(s) : s[i] = p
WHolders(p) == {u \in TreeThreads : HeldIn(thr[u].w_, p)}
RHolders(p) == {u \in TreeThreads : HeldIn(thr[u].r_, p)}
\* who stands in the way of taking the latch in the mode
Blockers(l, mode) ==
  IF l = RootIdLatch
    THEN {u \in TreeThreads : thr[u].rl_ = "W" \/ (mode = "W" /\ thr[u].rl_ = "R")}
    ELSE WHolders(l) \cup (IF mode = "W" THEN RHolders(l) ELSE {})

\* a zeroed page read as an internal page has no slot and every child id 0
ReadChild(pg, key) ==
  IF pg.page_type_ = "invalid" THEN HEADER_PAGE_ID ELSE FindChild(pg, key).child
FirstChild(pg) ==
  IF pg.page_type_ = "invalid" THEN HEADER_PAGE_ID ELSE ValueAt(pg, 0)

\* the latch the next step of the thread takes: [l, mode], mode "none" for no latch
Wants(th) ==
  LET me == thr[th]
      no == [l |-> INVALID_PAGE_ID, mode |-> "none"]
  IN  IF me.pc = "header" THEN [l |-> HEADER_PAGE_ID, mode |-> "W"]
      ELSE IF me.pc = "wlock" THEN [l |-> RootIdLatch, mode |-> "W"]
      ELSE IF me.pc = "descend"
        THEN [l |-> IF Len(me.w_) = 1 THEN tree.root_page_id_
                    ELSE FindChild(Pg(tree, Back(me.w_)), me.key).child,
              mode |-> "W"]
      ELSE IF me.pc = "sibling"
        THEN [l |-> RemoveRun(tree, me.key).sibs[me.sibs + 1], mode |-> "W"]
      ELSE IF me.pc = "newroot" THEN [l |-> tree.root_page_id_, mode |-> "W"]
      ELSE IF me.pc = "rlock" THEN [l |-> RootIdLatch, mode |-> "R"]
      ELSE IF me.pc = "readroot" THEN [l |-> tree.root_page_id_, mode |-> "R"]
      ELSE IF me.pc = "crab"
        THEN [l |-> ReadChild(Pg(tree, Back(me.r_)), me.key), mode |-> "R"]
      ELSE IF me.pc = "bheader" THEN [l |-> HEADER_PAGE_ID, mode |-> "R"]
      ELSE IF me.pc = "bdescend"
        THEN [l |-> IF Len(me.r_) = 1 THEN tree.header_root_
                    ELSE FirstChild(Pg(tree, Back(me.r_))),
              mode |-> "R"]
      ELSE no
Free(w) == Blockers(w.l, w.mode) = {}

\* the call returns: every guard it still has is dropped
Returned(th, ret) ==
  [thr EXCEPT ![th] = [IdleThread EXCEPT !.op = thr[th].op, !.key = thr[th].key,
                                         !.ret = ret]]
TreeStep(th, me) == thr' = [thr EXCEPT ![th] = me]
poolAndLast == <<bpmAllVars, last>>

\* ---- the calls start
FirstPc(op) ==
  IF op = "Insert" \/ op = "Remove" THEN "header"
  ELSE IF op = "GetValue" THEN "rlock" ELSE "bheader"
StartCall(th, op, key) ==
  /\ thr[th].pc = "idle"
  /\ tree_ops < MaxConcOps
  /\ TreeStep(th, [IdleThread EXCEPT !.pc = FirstPc(op), !.op = op, !.key = key])
  /\ tree_ops' = tree_ops + 1
  /\ UNCHANGED <<tree, kv, poolAndLast>>
\* a writer of the disjoint key sets: thread th owns the keys = th - 1 mod the
\* number of threads, and inserts each of them once
StartInsert(th, key) ==
  /\ thr[th].pc = "idle"
  /\ key % NumTreeThreads = th - 1
  /\ kv[key] = 0
  /\ TreeStep(th, [IdleThread EXCEPT !.pc = "header", !.op = "Insert", !.key = key])
  /\ kv' = [kv EXCEPT ![key] = key + 1]
  /\ tree_ops' = tree_ops + 1
  /\ UNCHANGED <<tree, poolAndLast>>

\* ---- Insert and Remove
\* FetchHeaderWrite
FetchHeaderWrite(th) ==
  /\ thr[th].pc = "header"
  /\ Free(Wants(th))
  /\ TreeStep(th, [thr[th] EXCEPT !.pc = "wlock", !.w_ = <<HEADER_PAGE_ID>>])
  /\ UNCHANGED <<tree, kv, tree_ops, poolAndLast>>

\* root_page_id_latch_.WLock(), and the empty tree's path of Insert and Remove
WLockRoot(th) ==
  /\ thr[th].pc = "wlock"
  /\ Free(Wants(th))
  /\ IF IsEmpty(tree)
       THEN IF thr[th].op = "Insert"
              THEN /\ tree' = NewRootPage(tree, thr[th].key, thr[th].key + 1)
                   /\ thr' = Returned(th, TRUE)
              ELSE /\ tree' = tree
                   /\ thr' = Returned(th, FALSE)
       ELSE /\ tree' = tree
            /\ TreeStep(th, [thr[th] EXCEPT !.pc = "descend", !.rl_ = "W"])
  /\ UNCHANGED <<kv, tree_ops, poolAndLast>>

\* the guards Insert still has after it let go of write_set_: the leaf, and
\* the parent InsertInternal stopped at when the leaf was split
KeptByInsert(path) ==
  LET leaf == Back(path)
      anc == PopBack(path)
      open == {i \in 1 .. Len(anc) : GetSize(Pg(tree, anc[i])) < GetMaxSize(Pg(tree, anc[i]))}
  IN  IF GetSize(Pg(tree, leaf)) < GetMaxSize(Pg(tree, leaf)) \/ open = {}
        THEN <<leaf>>
        ELSE <<anc[MaxOf(open)], leaf>>

\* Insert with the leaf latched: a duplicate returns; a root split publishes
\* root_page_id_ and unlocks it with the new root still zeroed and unlatched;
\* every other insert lets go of the header, the root id and write_set_
InsertAtLeaf(th, path, r) ==
  LET me == thr[th]
      leaf == Back(path)
      new_root_page_id == r.t.root_page_id_
  IN  IF Exist(Pg(tree, leaf), me.key).found
        THEN tree' = tree /\ thr' = Returned(th, FALSE)
      ELSE IF new_root_page_id # tree.root_page_id_
        THEN /\ tree' = [r.t EXCEPT !.pages[new_root_page_id] = ZeroPage,
                                    !.header_root_ = tree.header_root_]
             /\ TreeStep(th, [me EXCEPT !.pc = "newroot", !.rl_ = "none",
                                        !.w_ = IF Len(path) = 1
                                                 THEN <<HEADER_PAGE_ID, leaf>>
                                                 ELSE <<HEADER_PAGE_ID, path[1], leaf>>,
                                        !.pending = r.t.pages[new_root_page_id]])
      ELSE /\ tree' = r.t
           /\ TreeStep(th, [me EXCEPT !.pc = "tail", !.rl_ = "none", !.ret = r.ret,
                                      !.w_ = KeptByInsert(path)])

\* Remove with the leaf latched: it returns unless the leaf is short of entries
RemoveAtLeaf(th, w, run) ==
  IF run.sibs = <<>>
    THEN tree' = run.t /\ thr' = Returned(th, FALSE)
    ELSE tree' = tree /\ TreeStep(th, [thr[th] EXCEPT !.pc = "sibling", !.w_ = w])

\* GetLeafAndUpdate: FetchPageWrite of the next page on the way to the leaf
DescendTo(th, p, w) ==
  /\ Blockers(p, "W") = {}
  /\ IF ~IsLeafPage(Pg(tree, p))
       THEN tree' = tree /\ TreeStep(th, [thr[th] EXCEPT !.w_ = w])
     ELSE IF thr[th].op = "Insert"
       THEN InsertAtLeaf(th, Tail(w), Insert(tree, thr[th].key, thr[th].key + 1))
     ELSE RemoveAtLeaf(th, w, RemoveRun(tree, thr[th].key))
  /\ UNCHANGED <<kv, tree_ops, poolAndLast>>
Descend(th) ==
  /\ thr[th].pc = "descend"
  /\ \E p \in {Wants(th).l} : DescendTo(th, p, Append(thr[th].w_, p))

\* Insert returns: the guards of the leaf and of the parent go
InsertTail(th) ==
  /\ thr[th].pc = "tail"
  /\ thr' = Returned(th, thr[th].ret)
  /\ UNCHANGED <<tree, kv, tree_ops, poolAndLast>>

\* InsertInternal, lines 201-212: FetchPageWrite of the new root, its Init and
\* RootInit, the header page's root id, ReleaseHeader
LatchNewRoot(th) ==
  /\ thr[th].pc = "newroot"
  /\ Free(Wants(th))
  /\ tree' = [tree EXCEPT !.pages[tree.root_page_id_] = thr[th].pending,
                          !.header_root_ = tree.root_page_id_]
  /\ thr' = Returned(th, TRUE)
  /\ UNCHANGED <<kv, tree_ops, poolAndLast>>

\* RemoveLeaf, RemoveInternal: FetchPageWrite of the next sibling
LatchSiblingOf(th, run) ==
  /\ Blockers(run.sibs[thr[th].sibs + 1], "W") = {}
  /\ IF thr[th].sibs + 1 = Len(run.sibs)
       THEN tree' = run.t /\ thr' = Returned(th, FALSE)
       ELSE /\ tree' = tree
            /\ TreeStep(th, [thr[th] EXCEPT !.sibs = @ + 1,
                                            !.w_ = Append(@, run.sibs[thr[th].sibs + 1])])
  /\ UNCHANGED <<kv, tree_ops, poolAndLast>>
LatchSibling(th) ==
  /\ thr[th].pc = "sibling"
  /\ LatchSiblingOf(th, RemoveRun(tree, thr[th].key))

\* ---- GetValue
\* root_page_id_latch_.RLock(), and the empty tree's return
RLockRoot(th) ==
  /\ thr[th].pc = "rlock"
  /\ Free(Wants(th))
  /\ IF IsEmpty(tree) THEN thr' = Returned(th, FALSE)
     ELSE TreeStep(th, [thr[th] EXCEPT !.pc = "readroot", !.rl_ = "R"])
  /\ UNCHANGED <<tree, kv, tree_ops, poolAndLast>>

\* the reader has the read latch of page p: a leaf answers, the header page or
\* a page the tree never made leaves the reader astray, any other page routes
ReaderAt(th, p, guards_) ==
  IF p \notin DOMAIN tree.pages
    THEN TreeStep(th, [thr[th] EXCEPT !.pc = "astray", !.rl_ = "none", !.r_ = guards_])
  ELSE IF IsLeafPage(Pg(tree, p))
    THEN thr' = Returned(th, thr[th].op = "GetValue" /\ Exist(Pg(tree, p), thr[th].key).found)
  ELSE TreeStep(th, [thr[th] EXCEPT !.pc = IF thr[th].op = "GetValue" THEN "crab"
                                            ELSE "bdescend",
                                    !.rl_ = "none", !.r_ = guards_])

\* GetLeaf: FetchPageRead(root_page_id_), then RUnlock
ReadRoot(th) ==
  /\ thr[th].pc = "readroot"
  /\ Blockers(tree.root_page_id_, "R") = {}
  /\ ReaderAt(th, tree.root_page_id_, <<tree.root_page_id_>>)
  /\ UNCHANGED <<tree, kv, tree_ops, poolAndLast>>

\* GetLeaf: FetchPageRead of the child, whose guard replaces the parent's
Crab(th) ==
  /\ thr[th].pc = "crab"
  /\ \E p \in {Wants(th).l} : Blockers(p, "R") = {} /\ ReaderAt(th, p, <<p>>)
  /\ UNCHANGED <<tree, kv, tree_ops, poolAndLast>>

\* ---- Begin()
\* FetchPageRead(header_page_id_), and the empty tree's return
BeginHeader(th) ==
  /\ thr[th].pc = "bheader"
  /\ Free(Wants(th))
  /\ IF tree.header_root_ = INVALID_PAGE_ID THEN thr' = Returned(th, FALSE)
     ELSE TreeStep(th, [thr[th] EXCEPT !.pc = "bdescend", !.r_ = <<HEADER_PAGE_ID>>])
  /\ UNCHANGED <<tree, kv, tree_ops, poolAndLast>>

\* the way down the first children, the header guard kept to the end
BeginDescend(th) ==
  /\ thr[th].pc = "bdescend"
  /\ \E p \in {Wants(th).l} :
       Blockers(p, "R") = {} /\ ReaderAt(th, p, <<HEADER_PAGE_ID, p>>)
  /\ UNCHANGED <<tree, kv, tree_ops, poolAndLast>>

WriterStep(th) ==
  \/ FetchHeaderWrite(th)
  \/ WLockRoot(th)
  \/ Descend(th)
  \/ InsertTail(th)
  \/ LatchNewRoot(th)

\* writers of disjoint key sets on a tree that starts empty
NextIns ==
  \/ \E th \in TreeThreads, key \in TreeKeys : StartInsert(th, key)
  \/ \E th \in TreeThreads : WriterStep(th)
SpecIns == InitTree /\ [][NextIns]_vars

ConcKeys == 0 .. (MaxKey \div 2)
NextConc ==
  \/ \E th \in TreeThreads, key \in ConcKeys :
       \E op \in {"Insert", "Remove", "GetValue"} : StartCall(th, op, key)
  \/ \E th \in TreeThreads : StartCall(th, "Begin", 0)
  \/ \E th \in TreeThreads : WriterStep(th)
  \/ \E th \in TreeThreads : LatchSibling(th)
  \/ \E th \in TreeThreads : RLockRoot(th)
  \/ \E th \in TreeThreads : ReadRoot(th)
  \/ \E th \in TreeThreads : Crab(th)
  \/ \E th \in TreeThreads : BeginHeader(th)
  \/ \E th \in TreeThreads : BeginDescend(th)
SpecConc == InitTree /\ [][NextConc]_vars

\* ---- Split and the page it makes, at the level of the page guards
\* Thread 1 runs the split of a full page as Insert and InsertInternal do:
\* Split with its two local guards (temp: guard 1, right_page_guard: guard 2),
\* and then the caller's accesses through the N* that Split returned. Thread 2
\* uses the pool meanwhile. thr[1].key is *page_id, thr[1].pending the pointer
\* right_page (the frame AsMut handed out).
\* auto temp = bpm_->NewPageGuarded(page_id)
SplitNewPage ==
  /\ thr[1].pc = "idle"
  /\ ~Exhausted(Bpm)
  /\ GuardNew(1)
  /\ thr' = [thr EXCEPT ![1].pc = "split_fetch", ![1].op = "Insert",
                         ![1].key = next_page_id_]
  /\ UNCHANGED <<tree, kv, tree_ops, lockVars, heap>>
\* auto right_page_guard = bpm_->FetchPageWrite(temp.PageId())
SplitFetch ==
  /\ thr[1].pc = "split_fetch"
  /\ GuardFetch(2, "write", thr[1].key)
  /\ thr' = [thr EXCEPT ![1].pc = "split_drop"]
  /\ UNCHANGED <<tree, kv, tree_ops, lockVars, heap>>
\* temp.Drop()
SplitDrop ==
  /\ thr[1].pc = "split_drop"
  /\ GuardDrop(1)
  /\ thr' = [thr EXCEPT ![1].pc = "split_init"]
  /\ UNCHANGED <<tree, kv, tree_ops, lockVars, heap>>
\* right_page = right_page_guard.AsMut<N>(); Init, MoveHalfTo, SetSize write
\* the page's bytes
SplitInit ==
  /\ thr[1].pc = "split_init"
  /\ guards' = [guards EXCEPT ![2].is_dirty_ = TRUE]
  /\ pages_' = [pages_ EXCEPT ![guards[2].page_].data_ = MaxVal]
  /\ thr' = [thr EXCEPT ![1].pc = "split_return", ![1].pending = <<guards[2].page_>>]
  /\ last' = Call("AsMut", 0, INVALID_PAGE_ID)
  /\ UNCHANGED <<page_table_, free_list_, next_page_id_, replacer_, disk, latch, held,
                 owed, accesses, tree, kv, tree_ops, lockVars, heap>>
\* return right_page: the locals right_page_guard and temp are destroyed
SplitReturn ==
  /\ thr[1].pc = "split_return"
  /\ \E d \in {BasicDrop(Bpm, guards[2])} :
       /\ SetBpm(d.b)
       /\ owed' = owed - d.calls
  /\ latch' = Unlatch(latch, guards[2])
  /\ guards' = [g \in Guards |-> DeadGuard]
  /\ thr' = [thr EXCEPT ![1].pc = "right_page"]
  /\ last' = Call("Dtor", 0, INVALID_PAGE_ID)
  /\ UNCHANGED <<held, accesses, tree, kv, tree_ops, lockVars, heap>>
\* the caller after Split: right_page->Insert, SetNextPageId, KeyAt(0), all
\* through the pointer; the bytes written land in the frame it points to
WriteRight ==
  /\ thr[1].pc = "right_page"
  /\ pages_' = [pages_ EXCEPT ![thr[1].pending[1]].data_ = MaxVal]
  /\ thr' = [thr EXCEPT ![1] = IdleThread]
  /\ last' = Call("Write", 0, INVALID_PAGE_ID)
  /\ UNCHANGED <<page_table_, free_list_, next_page_id_, replacer_, disk, latch,
                 guards, held, owed, accesses, tree, kv, tree_ops, lockVars, heap>>
NextSplit ==
  \/ SplitNewPage
  \/ SplitFetch
  \/ SplitDrop
  \/ SplitInit
  \/ SplitReturn
  \/ WriteRight
  \/ DoNewPage(2) /\ UNCHANGED indexVars
  \/ \E p \in PageIds : DoFetchPage(2, p) /\ UNCHANGED indexVars
  \/ \E p \in PageIds, d \in BOOLEAN : DoUnpinPage(2, p, d) /\ UNCHANGED indexVars
SpecSplit == Init /\ [][NextSplit]_vars

\* ---- waiting in a circle
BlockersOf(w) == Blockers(w.l, w.mode)
WaitsOn(th) == IF thr[th].pc = "idle" THEN {} ELSE BlockersOf(Wants(th))
RECURSIVE ReachFrom(_, _)
ReachFrom(S, n) ==
  IF n = 0 THEN S ELSE ReachFrom(S \cup UNION {WaitsOn(u) : u \in S}, n - 1)
InCycle(th) == th \in ReachFrom(WaitsOn(th), NumTreeThreads)
AllIdle == \A th \in TreeThreads : thr[th].pc = "idle"

\* ------------------------------------------------ what the tree holds
\* the pairs of kv in increasing key order
RECURSIVE PairsFrom(_, _)
PairsFrom(m, key) ==
  IF key > MaxKey THEN <<>>
  ELSE (IF m[key] # 0 THEN <<[k |-> key, v |-> m[key]]>> ELSE <<>>) \o PairsFrom(m, key + 1)
PairsInOrder(m) == PairsFrom(m, 0)

\* C11: every key of kv is found with its value and no other key is found
C11_RoundTrip ==
  \A key \in TreeKeys :
    GetValue(tree, key) = [found |-> kv[key] # 0, value |-> kv[key]]

\* C12: iterating from Begin() until IsEnd() visits the pairs of the tree, each
\* once, in increasing key order, and no slot at or past a leaf's size
C12_IterationVisitsPairs == Visited(tree) = PairsInOrder(kv)

\* the pages reachable from the root
RECURSIVE NodesFrom(_, _, _)
NodesFrom(t, page_id, fuel) ==
  IF page_id \notin DOMAIN t.pages THEN {}
  ELSE IF IsLeafPage(Pg(t, page_id)) \/ fuel = 0 THEN {page_id}
  ELSE {page_id} \cup UNION {NodesFrom(t, ValueAt(Pg(t, page_id), i), fuel - 1) :
                               i \in 0 .. (GetSize(Pg(t, page_id)) - 1)}
Nodes(t) == NodesFrom(t, t.root_page_id_, Len(t.pages))

C14_DuplicateRejected ==
  [][(last'.op = "Insert" /\ kv[last'.aux] # 0)
       => (last'.ret = 0 /\ tree' = tree /\ kv' = kv)]_vars

\* every insert that has returned returned true, and with every thread back
\* each inserted key is found with its value and no other key is found
InsertsFound ==
  /\ \A th \in TreeThreads :
       (thr[th].pc = "idle" /\ thr[th].op = "Insert") => thr[th].ret
  /\ AllIdle =>
       \A key \in TreeKeys :
         GetValue(tree, key) = [found |-> kv[key] # 0, value |-> kv[key]]

\* C15: writers of disjoint key sets on a tree that starts empty: every insert
\* returns true, and once all have returned every inserted key is found by
\* GetValue and the iteration from Begin() yields the inserted pairs in key order
C15_ConcurrentInserts ==
  /\ InsertsFound
  /\ AllIdle => Visited(tree) = PairsInOrder(kv)

\* C16: no set of threads waits in a circle, each for a latch (header page
\* latch, root_page_id_latch_, page latch) that the next one holds
C16_NoCyclicWait == \A th \in TreeThreads : ~InCycle(th)

\* =================================================================
\*                          LockManager
\* =================================================================
LockModes ==
  {"SHARED", "EXCLUSIVE", "INTENTION_SHARED", "INTENTION_EXCLUSIVE",
   "SHARED_INTENTION_EXCLUSIVE"}
IsolationLevels == {"READ_UNCOMMITTED", "READ_COMMITTED", "REPEATABLE_READ"}

CanLockUpgradeAny(curr_lock_mode, requested_lock_mode) == TRUE
CanLockUpgrade(curr_lock_mode, requested_lock_mode) ==
  IF curr_lock_mode = "INTENTION_SHARED"
    THEN requested_lock_mode \in {"SHARED", "EXCLUSIVE", "INTENTION_EXCLUSIVE",
                                  "SHARED_INTENTION_EXCLUSIVE"}
  ELSE IF curr_lock_mode = "SHARED"
    THEN requested_lock_mode \in {"EXCLUSIVE", "SHARED_INTENTION_EXCLUSIVE"}
  ELSE IF curr_lock_mode = "INTENTION_EXCLUSIVE"
    THEN requested_lock_mode \in {"EXCLUSIVE", "SHARED_INTENTION_EXCLUSIVE"}
  ELSE IF curr_lock_mode = "SHARED_INTENTION_EXCLUSIVE"
    THEN requested_lock_mode = "EXCLUSIVE"
  ELSE FALSE

\* CheckIsolation: the AbortReason it throws with, "NONE" where it returns true
CheckIsolationNone(txn, lock_mode) == "NONE"
CheckIsolation(txn, lock_mode) ==
  IF txn.isolation_level_ = "READ_UNCOMMITTED"
    THEN IF lock_mode \in {"SHARED", "INTENTION_SHARED", "SHARED_INTENTION_EXCLUSIVE"}
           THEN "LOCK_SHARED_ON_READ_UNCOMMITTED"
         ELSE IF txn.state_ = "SHRINKING"
                 /\ lock_mode \in {"EXCLUSIVE", "INTENTION_EXCLUSIVE"}
           THEN "LOCK_ON_SHRINKING"
         ELSE "NONE"
  ELSE IF txn.isolation_level_ = "READ_COMMITTED"
    THEN IF txn.state_ = "SHRINKING" /\ lock_mode # "SHARED"
            /\ lock_mode # "INTENTION_SHARED"
           THEN "LOCK_ON_SHRINKING"
           ELSE "NONE"
  ELSE IF txn.state_ = "SHRINKING" THEN "LOCK_ON_SHRINKING" ELSE "NONE"

AreLocksCompatibleAny(l1, l2) == TRUE
AreLocksCompatible(l1, l2) ==
  IF l1 = "INTENTION_SHARED"
    THEN l2 \in {"INTENTION_SHARED", "INTENTION_EXCLUSIVE", "SHARED",
                 "SHARED_INTENTION_EXCLUSIVE"}
  ELSE IF l1 = "INTENTION_EXCLUSIVE" THEN l2 \in {"INTENTION_SHARED", "INTENTION_EXCLUSIVE"}
  ELSE IF l1 = "SHARED" THEN l2 \in {"INTENTION_SHARED", "SHARED"}
  ELSE IF l1 = "SHARED_INTENTION_EXCLUSIVE" THEN l2 = "INTENTION_SHARED"
  ELSE FALSE

\* ---- a LockRequestQueue
LockRequest(txn_id, lock_mode) ==
  [txn_id_ |-> txn_id, lock_mode_ |-> lock_mode, granted_ |-> FALSE]
\* the place of the transaction's request in the queue, 0 for none
RequestOf(q, txn_id) ==
  IF \E i \in 1 .. Len(q.request_queue_) : q.request_queue_[i].txn_id_ = txn_id
    THEN CHOOSE i \in 1 .. Len(q.request_queue_) : q.request_queue_[i].txn_id_ = txn_id
    ELSE 0
IsGranted(q, txn_id) ==
  \E i \in 1 .. Len(q.request_queue_) :
    q.request_queue_[i].txn_id_ = txn_id /\ q.request_queue_[i].granted_
IsWaiting(q, txn_id) ==
  \E i \in 1 .. Len(q.request_queue_) :
    q.request_queue_[i].txn_id_ = txn_id /\ ~q.request_queue_[i].granted_
Grant(q, i) == [q EXCEPT !.request_queue_[i].granted_ = TRUE]
Erase(q, i) == [q EXCEPT !.request_queue_ = RemoveAt(@, i)]

\* CanGrantLock, first loop: a granted request the mode is not compatible with
GrantedConflict(lock_mode, q) ==
  \E i \in 1 .. Len(q.request_queue_) :
    /\ q.request_queue_[i].granted_
    /\ ~AreLocksCompatible(lock_mode, q.request_queue_[i].lock_mode_)
\* CanGrantLock: an upgrade is pending and it is not this transaction's
OtherUpgradingNever(txn_id, q) == FALSE
OtherUpgrading(txn_id, q) ==
  q.upgrading_ # INVALID_TXN_ID /\ q.upgrading_ # txn_id
\* CanGrantLock, last loop: a request before slot i that waits and is not compatible
EarlierWaiterConflictsNever(i, q) == FALSE
EarlierWaiterConflicts(i, q) ==
  \E j \in 1 .. (i - 1) :
    /\ ~q.request_queue_[j].granted_
    /\ ~AreLocksCompatible(q.request_queue_[i].lock_mode_, q.request_queue_[j].lock_mode_)

\* CanGrantLock for the request in slot i: [ok, q], q the queue it leaves
CanGrantLock(i, q) ==
  IF GrantedConflict(q.request_queue_[i].lock_mode_, q) THEN [ok |-> FALSE, q |-> q]
  ELSE IF q.upgrading_ # INVALID_TXN_ID
    THEN IF ~OtherUpgrading(q.request_queue_[i].txn_id_, q)
           THEN [ok |-> TRUE, q |-> [Grant(q, i) EXCEPT !.upgrading_ = INVALID_TXN_ID]]
           ELSE [ok |-> FALSE, q |-> q]
  ELSE IF EarlierWaiterConflicts(i, q) THEN [ok |-> FALSE, q |-> q]
  ELSE [ok |-> TRUE, q |-> Grant(q, i)]

\* cv_.notify_all(): every thread asleep on the queue's condition variable wakes
NotifyAll(ts, res) ==
  [t \in DOMAIN ts |-> IF ts[t].pc = "asleep" /\ ts[t].res = res
                         THEN [ts[t] EXCEPT !.pc = "woken"] ELSE ts[t]]
\* SetState(ABORTED) and throw TransactionAbortException(reason)
Throw(t, reason) == [txns EXCEPT ![t].state_ = "ABORTED", ![t].reason = reason]

\* ---- ModifyTableLockSet, ModifyRowLockSet
\* The transaction's lock sets, as pairs <<resource, mode>>: five table lock
\* sets, one for each mode, and the row lock sets of S and X
HasLockSet(res, lock_mode) == res # "row" \/ lock_mode \in {"SHARED", "EXCLUSIVE"}
InsertLockNone(txn, res, lock_mode) == txn
InsertLock(txn, res, lock_mode) ==
  IF HasLockSet(res, lock_mode)
    THEN [txn EXCEPT !.lock_set_ = @ \cup {<<res, lock_mode>>}] ELSE txn
DeleteLockNone(txn, res, lock_mode) == txn
DeleteLock(txn, res, lock_mode) ==
  IF HasLockSet(res, lock_mode)
    THEN [txn EXCEPT !.lock_set_ = @ \ {<<res, lock_mode>>}] ELSE txn

\* ---- LockTable, LockRow
\* the new request is at the back of the queue: the while loop's first
\* CanGrantLock, and the insert into the lock set when it grants
PushAndTry(ts, t, res, lock_mode, grant) ==
  /\ lq' = [lq EXCEPT ![res] = grant.q]
  /\ txns' = IF grant.ok THEN [ts EXCEPT ![t] = InsertLock(@, res, lock_mode)]
             ELSE [ts EXCEPT ![t].pc = "asleep", ![t].res = res]
\* the scan found a request of the transaction while an upgrade is pending
UpgradeConflictNever(q) == FALSE
UpgradeConflict(q) == q.upgrading_ # INVALID_TXN_ID
\* the part LockTable and LockRow share: the scan for a request of the same
\* transaction (repeat, upgrade), push_back, and the first CanGrantLock
Enqueue(t, res, lock_mode, q, own) ==
  IF own # 0 /\ q.request_queue_[own].lock_mode_ = lock_mode
    THEN UNCHANGED <<lq, txns>>
  ELSE IF own # 0 /\ UpgradeConflict(q)
    THEN txns' = Throw(t, "UPGRADE_CONFLICT") /\ lq' = lq
  ELSE IF own # 0 /\ ~CanLockUpgrade(q.request_queue_[own].lock_mode_, lock_mode)
    THEN txns' = Throw(t, "INCOMPATIBLE_UPGRADE") /\ lq' = lq
  ELSE IF own # 0
    THEN \E q1 \in {[Erase(q, own) EXCEPT !.upgrading_ = t,
                                          !.request_queue_ =
                                             Append(RemoveAt(q.request_queue_, own),
                                                    LockRequest(t, lock_mode))]} :
           PushAndTry([txns EXCEPT ![t] = DeleteLock(@, res, q.request_queue_[own].lock_mode_)],
                      t, res, lock_mode, CanGrantLock(Len(q1.request_queue_), q1))
  ELSE \E q1 \in {[q EXCEPT !.request_queue_ = Append(@, LockRequest(t, lock_mode))]} :
         PushAndTry(txns, t, res, lock_mode, CanGrantLock(Len(q1.request_queue_), q1))

\* a transaction's thread is outside every call and the transaction is live
Running(t) ==
  txns[t].pc = "run" /\ ~txns[t].ended /\ txns[t].state_ \in {"GROWING", "SHRINKING"}
\* the thread is outside every call and the transaction is still in the
\* transaction table: growing, shrinking, or aborted and not yet rolled back
Callable(t) == txns[t].pc = "run" /\ ~txns[t].ended
\* a client call: the calls a run may still make are counted down
LockCall == lock_ops > 0 /\ lock_ops' = lock_ops - 1

\* the chain of checks before the queue: the first reason to throw, or "NONE"
FirstReason(r1, r2) == IF r1 # "NONE" THEN r1 ELSE r2
\* set the state ABORTED and throw if there is a reason, else go to the queue
ThrowOrEnqueue(t, res, lock_mode, reason) ==
  IF reason # "NONE"
    THEN txns' = Throw(t, reason) /\ lq' = lq
    ELSE Enqueue(t, res, lock_mode, lq[res], RequestOf(lq[res], t))

LockTable(t, lock_mode) ==
  /\ Callable(t) /\ LockCall
  /\ ThrowOrEnqueue(t, "table", lock_mode, CheckIsolation(txns[t], lock_mode))
  /\ UNCHANGED <<bpmAllVarsNoLock, last, tree, kv, tree_ops, thr>>

\* the transaction's table lock set of one of the modes holds the table
HoldsTable(t, modes) == \E lock_mode \in modes : <<"table", lock_mode>> \in txns[t].lock_set_
\* CheckLockRow: the AbortReason it throws with, "NONE" where it returns
CheckLockRowAny(t, lock_mode) == "NONE"
CheckLockRow(t, lock_mode) ==
  IF lock_mode = "EXCLUSIVE"
    THEN IF HoldsTable(t, {"EXCLUSIVE", "INTENTION_EXCLUSIVE", "SHARED_INTENTION_EXCLUSIVE"})
           THEN "NONE" ELSE "TABLE_LOCK_NOT_PRESENT"
  ELSE IF lock_mode = "SHARED" THEN "NONE"
  ELSE "ATTEMPTED_INTENTION_LOCK_ON_ROW"

LockRow(t, lock_mode) ==
  /\ Callable(t) /\ LockCall
  /\ IF txns[t].state_ \in {"COMMITTED", "ABORTED"}
       THEN UNCHANGED <<lq, txns>>
       ELSE ThrowOrEnqueue(t, "row", lock_mode,
                           FirstReason(CheckIsolation(txns[t], lock_mode),
                                       CheckLockRow(t, lock_mode)))
  /\ UNCHANGED <<bpmAllVarsNoLock, last, tree, kv, tree_ops, thr>>

\* the thread leaves cv_.wait: an aborted transaction takes its request out and
\* notifies, any other calls CanGrantLock again
Recheck(t) ==
  /\ txns[t].pc = "woken"
  /\ \E res \in {txns[t].res} : \E q \in {lq[res]} : \E i \in {RequestOf(q, t)} :
       IF txns[t].state_ = "ABORTED"
         THEN /\ lq' = [lq EXCEPT ![res] =
                          [Erase(q, i) EXCEPT !.upgrading_ =
                             IF q.upgrading_ = t THEN INVALID_TXN_ID ELSE q.upgrading_]]
              /\ txns' = NotifyAll([txns EXCEPT ![t].pc = "run"], res)
         ELSE \E grant \in {CanGrantLock(i, q)} :
                /\ lq' = [lq EXCEPT ![res] = grant.q]
                /\ txns' = [txns EXCEPT ![t] =
                              IF grant.ok
                                THEN [InsertLock(@, res, q.request_queue_[i].lock_mode_)
                                        EXCEPT !.pc = "run"]
                                ELSE [@ EXCEPT !.pc = "asleep"]]
  /\ UNCHANGED <<lock_ops, bpmAllVarsNoLock, last, tree, kv, tree_ops, thr>>

\* cv_.wait may return without a notify (a spurious wake-up)
SpuriousWake(t) ==
  /\ txns[t].pc = "asleep"
  /\ txns' = [txns EXCEPT ![t].pc = "woken"]
  /\ UNCHANGED <<lq, lock_ops, bpmAllVarsNoLock, last, tree, kv, tree_ops, thr>>

\* ---- UnlockTable, UnlockRow
\* the state an unlock of the mode leaves the transaction in
AfterUnlock(txn, lock_mode, force) ==
  IF force THEN txn.state_
  ELSE IF txn.isolation_level_ = "REPEATABLE_READ"
    THEN IF lock_mode \in {"SHARED", "EXCLUSIVE"} THEN "SHRINKING" ELSE txn.state_
  ELSE IF lock_mode = "EXCLUSIVE" THEN "SHRINKING" ELSE txn.state_

\* the scan for the transaction's granted request, erase, notify_all;
\* ATTEMPTED_UNLOCK_BUT_NO_LOCK_HELD without one
Unlock(t, res, q, i, force) ==
  IF i # 0 /\ IsGranted(q, t)
    THEN /\ lq' = [lq EXCEPT ![res] = Erase(q, i)]
         /\ txns' = NotifyAll([txns EXCEPT
                                 ![t] = [DeleteLock(@, res, q.request_queue_[i].lock_mode_)
                                           EXCEPT !.state_ =
                                                    AfterUnlock(txns[t],
                                                                q.request_queue_[i].lock_mode_,
                                                                force),
                                                  !.unlocked = @ \/ ~force]],
                              res)
    ELSE txns' = Throw(t, "ATTEMPTED_UNLOCK_BUT_NO_LOCK_HELD") /\ lq' = lq

\* the transaction's shared or exclusive row lock set of the table is not empty
RowsLocked(t) ==
  \E lock_mode \in {"SHARED", "EXCLUSIVE"} : <<"row", lock_mode>> \in txns[t].lock_set_

UnlockTable(t) ==
  /\ Callable(t) /\ LockCall
  /\ IF RowsLocked(t)
       THEN txns' = Throw(t, "TABLE_UNLOCKED_BEFORE_UNLOCKING_ROWS") /\ lq' = lq
       ELSE Unlock(t, "table", lq["table"], RequestOf(lq["table"], t), FALSE)
  /\ UNCHANGED <<bpmAllVarsNoLock, last, tree, kv, tree_ops, thr>>

UnlockRow(t, force) ==
  /\ Callable(t) /\ LockCall
  /\ Unlock(t, "row", lq["row"], RequestOf(lq["row"], t), force)
  /\ UNCHANGED <<bpmAllVarsNoLock, last, tree, kv, tree_ops, thr>>

\* ---- TransactionManager::Commit, Abort
\* ReleaseLocks: UnlockRow(force) of every row lock, then UnlockTable of every
\* table lock, each with its notify_all
Released(q, t) == IF IsGranted(q, t) THEN Erase(q, RequestOf(q, t)) ELSE q
WokenBy(ts, t) ==
  [u \in DOMAIN ts |-> IF ts[u].pc = "asleep" /\ IsGranted(lq[ts[u].res], t)
                         THEN [ts[u] EXCEPT !.pc = "woken"] ELSE ts[u]]
ReleaseLocks(ts, t, state) ==
  /\ lq' = [res \in DOMAIN lq |-> Released(lq[res], t)]
  /\ txns' = WokenBy([ts EXCEPT ![t].state_ = state, ![t].ended = TRUE,
                                 ![t].lock_set_ = {}], t)
Commit(t) ==
  /\ Running(t) /\ LockCall
  /\ ReleaseLocks(txns, t, "COMMITTED")
  /\ UNCHANGED <<bpmAllVarsNoLock, last, tree, kv, tree_ops, thr>>

\* Abort, first loop: the table write records from the back; INSERT sets the
\* tuple's is_deleted_, DELETE clears it, UPDATE does nothing
UndoRecord(tuples, record) ==
  IF record.wtype_ = "INSERT" THEN [tuples EXCEPT ![record.rid_].is_deleted_ = TRUE]
  ELSE IF record.wtype_ = "DELETE" THEN [tuples EXCEPT ![record.rid_].is_deleted_ = FALSE]
  ELSE tuples
RECURSIVE UndoTable(_, _)
UndoTable(tuples, records) ==
  IF records = <<>> THEN tuples
  ELSE UndoTable(UndoRecord(tuples, Back(records)), PopBack(records))
\* Abort, second loop: the index write records from the back; INSERT calls
\* DeleteEntry, DELETE calls InsertEntry (the B+ tree's Remove and Insert)
UndoIndexRecord(t, record) ==
  IF record.wtype_ = "INSERT" THEN TreeRemove(t, record.tuple_)
  ELSE IF record.wtype_ = "DELETE" THEN Insert(t, record.tuple_, record.rid_).t
  ELSE t
RECURSIVE UndoIndex(_, _)
UndoIndex(t, records) ==
  IF records = <<>> THEN t
  ELSE UndoIndex(UndoIndexRecord(t, Back(records)), PopBack(records))
Abort(t) ==
  /\ txns[t].pc = "run" /\ ~txns[t].ended /\ LockCall
  /\ txns[t].state_ # "COMMITTED"
  /\ heap' = [heap EXCEPT !.tuples_ = UndoTable(@, txns[t].write_set_)]
  /\ tree' = UndoIndex(tree, txns[t].index_write_set_)
  /\ ReleaseLocks([txns EXCEPT ![t].write_set_ = <<>>, ![t].index_write_set_ = <<>>],
                  t, "ABORTED")
  /\ UNCHANGED <<bpmAndGuardVars, last, kv, tree_ops, thr>>

\* ---- the executors' writes, and the transaction that makes them
\* InsertExecutor::Next for one tuple of its child: InsertTuple takes the next
\* slot, the tuple's key goes into the index (InsertEntry's answer is not
\* looked at), and both writes are recorded
InsertTuple(tuples, key) == Append(tuples, [key |-> key, is_deleted_ |-> FALSE])
ExecInsert(t, key) ==
  /\ Running(t)
  /\ Len(heap.tuples_) < MaxTuples
  /\ heap' = [heap EXCEPT !.tuples_ = InsertTuple(@, key)]
  /\ tree' = Insert(tree, key, Len(heap.tuples_) + 1).t
  /\ txns' = [txns EXCEPT
                ![t].write_set_ = Append(@, [wtype_ |-> "INSERT", rid_ |-> Len(heap.tuples_) + 1]),
                ![t].index_write_set_ =
                  Append(@, [wtype_ |-> "INSERT", tuple_ |-> key, rid_ |-> Len(heap.tuples_) + 1])]
  /\ UNCHANGED <<bpmAndGuardVars, last, kv, tree_ops, thr, lq, lock_ops>>
\* DeleteExecutor::Next for one tuple of its child (a scan, which passes over
\* deleted tuples): is_deleted_ is set, the key leaves the index, and both
\* writes are recorded
ExecDelete(t, rid) ==
  /\ Running(t)
  /\ rid \in 1 .. Len(heap.tuples_)
  /\ ~heap.tuples_[rid].is_deleted_
  /\ Len(txns[t].write_set_) < MaxWrites
  /\ heap' = [heap EXCEPT !.tuples_[rid].is_deleted_ = TRUE]
  /\ tree' = TreeRemove(tree, heap.tuples_[rid].key)
  /\ txns' = [txns EXCEPT
                ![t].write_set_ = Append(@, [wtype_ |-> "DELETE", rid_ |-> rid]),
                ![t].index_write_set_ =
                  Append(@, [wtype_ |-> "DELETE", tuple_ |-> heap.tuples_[rid].key,
                             rid_ |-> rid])]
  /\ UNCHANGED <<bpmAndGuardVars, last, kv, tree_ops, thr, lq, lock_ops>>
\* the index keys
IndexKeys(t) == {key \in TreeKeys : GetValue(t, key).found}
\* an insert of a transaction that has committed since: the tuple and its key
\* stay, no record of it is left; the table is as the next transaction finds it
CommittedInsert(key) ==
  /\ \A t \in Txns : txns[t].write_set_ = <<>> /\ ~txns[t].ended
  /\ Len(heap.tuples_) < MaxTuples
  /\ \E t2 \in {Insert(tree, key, Len(heap.tuples_) + 1).t} :
       /\ tree' = t2
       /\ heap' = [tuples_ |-> InsertTuple(heap.tuples_, key),
                   before |-> [tuples_ |-> InsertTuple(heap.tuples_, key),
                               keys |-> IndexKeys(t2)]]
  /\ UNCHANGED <<bpmAndGuardVars, last, kv, tree_ops, thr, lockVars>>
InitUndo ==
  /\ InitPoolWith(NewPool(MaxK))
  /\ InitIndexWith(NewTree(MaxLeafMax, MaxInternalMax))
  /\ InitLockWith("REPEATABLE_READ", 1)
NextUndo ==
  \/ \E key \in UndoKeys : CommittedInsert(key)
  \/ \E key \in UndoKeys : ExecInsert(0, key)
  \/ \E rid \in 1 .. MaxTuples : ExecDelete(0, rid)
  \/ Abort(0)
SpecUndo == InitUndo /\ [][NextUndo]_vars

\* ---- RunCycleDetection
\* BuildGraph: for every queue of table_lock_map_ and row_lock_map_ an edge from
\* every granted to every waiting request, transactions that are aborted left out
Edge(u, v) ==
  /\ txns[u].state_ # "ABORTED" /\ txns[v].state_ # "ABORTED"
  /\ \E res \in DOMAIN lq : IsGranted(lq[res], u) /\ IsWaiting(lq[res], v)
BuildGraph == {e \in (DOMAIN txns) \X (DOMAIN txns) : Edge(e[1], e[2])}

\* waits_for_ as a set of edges: its keys and the targets of a key
Keys(g) == {e[1] : e \in g}
Targets(g, u) == {e[2] : e \in {d \in g : d[1] = u}}
Members(p) == {p[i] : i \in 1 .. Len(p)}
\* DFS: cycle_set_ holds the path the search is on.  The values it can have
\* when DFS returns true, the search being on path p: a target of p's last node
\* is in cycle_set_, or the search goes on into a target that is not.  The
\* order in which the targets of a node are tried is the container's; a node in
\* searched_set_ leads to no cycle
RECURSIVE CycleSetsAt(_, _)
CycleSetsAt(g, p) ==
  UNION {(IF Targets(g, q[Len(q)]) \cap Members(q) # {} THEN {Members(q)} ELSE {})
         \cup UNION {CycleSetsAt(g, Append(q, v)) :
                       v \in Targets(g, q[Len(q)]) \ Members(q)}
         : q \in {p}}
\* HasCycle: DFS from the keys in ascending order, up to the first that finds a
\* cycle
Begins(g) ==
  {begin_txn \in Keys(g) : \A b \in Keys(g) : b < begin_txn => CycleSetsAt(g, <<b>>) = {}}
CycleSets(g) == UNION {CycleSetsAt(g, <<begin_txn>>) : begin_txn \in Begins(g)}
Youngest(cycle_set_) == CHOOSE m \in cycle_set_ : \A x \in cycle_set_ : x <= m
HasCycle(g) == {Youngest(cycle_set_) : cycle_set_ \in CycleSets(g)}

\* WakeAbortedTxn: notify_all on the queue the victim waits in, the tables'
\* queues first (a thread waits in one queue)
WaitsIn(t) == {res \in DOMAIN lq : IsWaiting(lq[res], t)}
WakeAbortedTxn(ts, t) ==
  IF \E res \in WaitsIn(t) : res # "row"
    THEN NotifyAll(ts, CHOOSE res \in WaitsIn(t) : res # "row")
  ELSE IF "row" \in WaitsIn(t) THEN NotifyAll(ts, "row")
  ELSE ts
\* one round of the detector's loop: the graph, a victim, SetState, the wake-up
DetectAbort(t) ==
  /\ \E g \in {BuildGraph} : t \in HasCycle(g)
  /\ txns' = WakeAbortedTxn([txns EXCEPT ![t].state_ = "ABORTED"], t)
  /\ UNCHANGED <<lq, lock_ops, bpmAllVarsNoLock, last, tree, kv, tree_ops, thr>>
\* The same round when the victim's thread, woken earlier by another notify, has
\* the queue's latch and is past its test of the state (lock_manager.cpp:286)
\* when the detector sets it: WakeAbortedTxn takes no queue latch, its
\* notify_all finds the victim not waiting, and the victim's CanGrantLock decides
DetectAbortLate(t) ==
  /\ txns[t].pc = "woken"
  /\ \E g \in {BuildGraph} : t \in HasCycle(g)
  /\ \E res \in {txns[t].res} : \E i \in {RequestOf(lq[res], t)} :
     \E grant \in {CanGrantLock(i, lq[res])} :
       /\ lq' = [lq EXCEPT ![res] = grant.q]
       /\ txns' = [NotifyAll(txns, res) EXCEPT
                     ![t] = IF grant.ok
                              THEN [InsertLock(@, res, lq[res].request_queue_[i].lock_mode_)
                                      EXCEPT !.state_ = "ABORTED", !.pc = "run"]
                              ELSE [@ EXCEPT !.state_ = "ABORTED", !.pc = "asleep"]]
  /\ UNCHANGED <<lock_ops, bpmAllVarsNoLock, last, tree, kv, tree_ops, thr>>

InitLock ==
  /\ InitPoolWith(NewPool(MaxK))
  /\ InitIndexWith(NewTree(MaxLeafMax, MaxInternalMax))
  /\ \E level \in IsolationLevels : InitLockWith(level, MaxLockOps)
NextLock ==
  \/ \E t \in Txns, lock_mode \in LockModes : LockTable(t, lock_mode)
  \/ \E t \in Txns, lock_mode \in LockModes : LockRow(t, lock_mode)
  \/ \E t \in Txns : Recheck(t)
  \/ \E t \in Txns : UnlockTable(t)
  \/ \E t \in Txns, force \in BOOLEAN : UnlockRow(t, force)
  \/ \E t \in Txns : Commit(t)
  \/ \E t \in Txns : Abort(t)
  \/ \E t \in Txns : DetectAbort(t)
  \/ \E t \in Txns : DetectAbortLate(t)
  \/ \E t \in Txns : SpuriousWake(t)
SpecLock == InitLock /\ [][NextLock]_vars
\* The calls on one table under REPEATABLE_READ.  A thread that has been woken
\* gets the queue's latch and runs (the mutex is fair to it); nothing obliges a
\* client to make another call or a wait to return spuriously.
InitLockTable ==
  /\ InitPoolWith(NewPool(MaxK))
  /\ InitIndexWith(NewTree(MaxLeafMax, MaxInternalMax))
  /\ InitLockWith("REPEATABLE_READ", MaxFairOps)
NextLockTable ==
  \/ \E t \in Txns, lock_mode \in LockModes : LockTable(t, lock_mode)
  \/ \E t \in Txns : Recheck(t)
  \/ \E t \in Txns : UnlockTable(t)
  \/ \E t \in Txns : SpuriousWake(t)
SpecLockFair ==
  /\ InitLockTable /\ [][NextLockTable]_vars
  /\ \A t \in Txns : WF_vars(Recheck(t))

\* ---- the detector on lock tables with waits
\* The lock tables in which only the detector and the waiting threads have
\* something to do: every transaction has taken S on some tables (all granted,
\* S is compatible with S) and then some have asked for X on a table on which
\* others hold S, and wait.  A thread waits in one call, so a transaction waits
\* in one queue; TableNames[v + 1] is the table transaction v asks X on.
DetTxns == 0 .. (NumDetTxns - 1)
TableNames == <<"table", "table_1", "table_2", "table_3", "table_4", "table_5">>
DetTables == {TableNames[v + 1] : v \in DetTxns}
WaiterOf(res) == CHOOSE v \in DetTxns : TableNames[v + 1] = res
HolderSets == {H \in SUBSET DetTxns : Cardinality(H) <= MaxHolders}
\* the queue of a table: the holders' granted S requests, then the waiter's X
GrantedShared(H) ==
  SelectSeq([i \in 1 .. NumDetTxns |->
               [LockRequest(i - 1, "SHARED") EXCEPT !.granted_ = TRUE]],
            LAMBDA r : r.txn_id_ \in H)
WaitQueue(H, v) ==
  [request_queue_ |-> IF H = {} THEN <<>>
                      ELSE Append(GrantedShared(H), LockRequest(v, "EXCLUSIVE")),
   upgrading_ |-> INVALID_TXN_ID]
InitDetectWith(holders) ==
  /\ \A v \in DetTxns : v \notin holders[v]
  /\ lq = [res \in DetTables |-> WaitQueue(holders[WaiterOf(res)], WaiterOf(res))]
  /\ txns = [v \in DetTxns |->
               [state_ |-> "GROWING", isolation_level_ |-> "REPEATABLE_READ",
                pc |-> IF holders[v] = {} THEN "run" ELSE "asleep",
                res |-> TableNames[v + 1], ended |-> FALSE,
                reason |-> "NONE", unlocked |-> FALSE,
                write_set_ |-> <<>>, index_write_set_ |-> <<>>,
                lock_set_ |-> {<<TableNames[w + 1], "SHARED">> :
                                 w \in {u \in DetTxns : v \in holders[u]}}]]
  /\ lock_ops = MaxDetOps
InitDetect ==
  /\ InitPoolWith(NewPool(MaxK))
  /\ InitIndexWith(NewTree(MaxLeafMax, MaxInternalMax))
  /\ \E holders \in [DetTxns -> HolderSets] : InitDetectWith(holders)
\* the rounds of the detector, the threads it or a release wakes, and a client
\* that rolls a transaction back
NextDetect ==
  \/ \E t \in DetTxns : DetectAbort(t)
  \/ \E t \in DetTxns : DetectAbortLate(t)
  \/ \E t \in DetTxns : Recheck(t)
  \/ \E t \in DetTxns : Abort(t)
SpecDetect == InitDetect /\ [][NextDetect]_vars
\* The detector's thread runs a round every cycle_detection_interval, and a
\* thread that has been woken gets the queue's latch and runs; nothing obliges
\* a client to roll a transaction back.
SpecDetectFair ==
  /\ SpecDetect
  /\ WF_vars(\E t \in DetTxns : DetectAbort(t) \/ DetectAbortLate(t))
  /\ \A t \in DetTxns : WF_vars(Recheck(t))

\* ---- the detector on lock tables with waits in several modes
\* The same for NumTxns transactions with locks of the modes IS, IX and S held
\* on the tables and S or X asked for: the holders of a table have taken their
\* locks, compatible with each other and all granted, and then the table's
\* waiter has asked for a mode that at least one of them is incompatible with.
HeldModes == {"NONE", "INTENTION_SHARED", "INTENTION_EXCLUSIVE", "SHARED"}
WantModes == {"SHARED", "EXCLUSIVE"}
IsWaitShape(s) ==
  /\ \A u, w \in Txns :
       u # w /\ s.held[u] # "NONE" /\ s.held[w] # "NONE"
       => AreLocksCompatible(s.held[u], s.held[w])
  /\ \E u \in Txns : s.held[u] # "NONE" /\ ~AreLocksCompatible(s.want, s.held[u])
NoWait == [held |-> [u \in Txns |-> "NONE"], want |-> "NONE"]
WaitShapes ==
  {NoWait} \cup {s \in [held : [Txns -> HeldModes], want : WantModes] : IsWaitShape(s)}
\* the queue of a table: the holders' granted requests, then the waiter's
GrantedIn(modes) ==
  SelectSeq([i \in 1 .. NumTxns |->
               [txn_id_ |-> i - 1, lock_mode_ |-> modes[i - 1], granted_ |-> TRUE]],
            LAMBDA r : r.lock_mode_ # "NONE")
ModeQueue(s, v) ==
  [request_queue_ |-> IF s.want = "NONE" THEN <<>>
                      ELSE Append(GrantedIn(s.held), LockRequest(v, s.want)),
   upgrading_ |-> INVALID_TXN_ID]
InitDetectModesWith(shape) ==
  /\ \A v \in Txns : shape[v].held[v] = "NONE"
  /\ lq = [res \in {TableNames[v + 1] : v \in Txns} |->
             ModeQueue(shape[WaiterOf(res)], WaiterOf(res))]
  /\ txns = [v \in Txns |->
               [state_ |-> "GROWING", isolation_level_ |-> "REPEATABLE_READ",
                pc |-> IF shape[v].want = "NONE" THEN "run" ELSE "asleep",
                res |-> TableNames[v + 1], ended |-> FALSE,
                reason |-> "NONE", unlocked |-> FALSE,
                write_set_ |-> <<>>, index_write_set_ |-> <<>>,
                lock_set_ |-> {<<TableNames[w + 1], shape[w].held[v]>> :
                                 w \in {u \in Txns : shape[u].held[v] # "NONE"}}]]
  /\ lock_ops = MaxDetOps
InitDetectModes ==
  /\ InitPoolWith(NewPool(MaxK))
  /\ InitIndexWith(NewTree(MaxLeafMax, MaxInternalMax))
  /\ \E shape \in [Txns -> WaitShapes] : InitDetectModesWith(shape)
NextDetectModes ==
  \/ \E t \in Txns : DetectAbort(t)
  \/ \E t \in Txns : DetectAbortLate(t)
  \/ \E t \in Txns : Recheck(t)
  \/ \E t \in Txns : Abort(t)
SpecDetectModes == InitDetectModes /\ [][NextDetectModes]_vars

\* ---- the lock manager's properties
\* the matrix of compatible modes, pair by pair
CompatiblePairs ==
  {<<"INTENTION_SHARED", "INTENTION_SHARED">>, <<"INTENTION_SHARED", "INTENTION_EXCLUSIVE">>,
   <<"INTENTION_SHARED", "SHARED">>, <<"INTENTION_SHARED", "SHARED_INTENTION_EXCLUSIVE">>,
   <<"INTENTION_EXCLUSIVE", "INTENTION_SHARED">>, <<"INTENTION_EXCLUSIVE", "INTENTION_EXCLUSIVE">>,
   <<"SHARED", "INTENTION_SHARED">>, <<"SHARED", "SHARED">>,
   <<"SHARED_INTENTION_EXCLUSIVE", "INTENTION_SHARED">>}

\* C17: in every reachable state, any two granted requests of different
\* transactions in the same table or row queue have modes that are compatible
\* under IS~{IS,IX,S,SIX}, IX~{IS,IX}, S~{IS,S}, SIX~{IS}, X~{}
C17_GrantedCompatible ==
  \A res \in Resources :
    \A i, j \in 1 .. Len(lq[res].request_queue_) :
      ( /\ lq[res].request_queue_[i].granted_ /\ lq[res].request_queue_[j].granted_
        /\ lq[res].request_queue_[i].txn_id_ # lq[res].request_queue_[j].txn_id_ )
      => <<lq[res].request_queue_[i].lock_mode_, lq[res].request_queue_[j].lock_mode_>>
           \in CompatiblePairs
\* two transactions hold different modes on a queue and a third waits behind them
C17_Witness ==
  \E res \in Resources :
    \E i, j, k \in 1 .. Len(lq[res].request_queue_) :
      /\ lq[res].request_queue_[i].granted_ /\ lq[res].request_queue_[j].granted_
      /\ lq[res].request_queue_[i].lock_mode_ # lq[res].request_queue_[j].lock_mode_
      /\ ~lq[res].request_queue_[k].granted_
      /\ GrantedConflict(lq[res].request_queue_[k].lock_mode_, lq[res])

\* the transaction whose upgrade is pending on the queue, and its request
UpgradePending(q) == q.upgrading_ # INVALID_TXN_ID
BecomesGranted(res, t) == ~IsGranted(lq[res], t) /\ IsGranted(lq[res], t)'
\* C18: while a queue's upgrading_ is valid no request of another transaction
\* becomes granted; granting the upgrader's request clears upgrading_; and the
\* upgrader never goes to sleep or stays asleep with its request compatible with
\* every granted request, wherever the request is in the queue
C18_UpgradePriority ==
  [][\A res \in Resources :
       /\ UpgradePending(lq[res]) =>
            /\ \A t \in Txns \ {lq[res].upgrading_} : ~BecomesGranted(res, t)
            /\ BecomesGranted(res, lq[res].upgrading_)
                 => lq'[res].upgrading_ = INVALID_TXN_ID
       /\ \A t \in Txns :
            ( /\ lq'[res].upgrading_ = t
              /\ txns'[t].pc = "asleep" /\ txns'[t].res = res )
            => GrantedConflict(
                 lq'[res].request_queue_[RequestOf(lq'[res], t)].lock_mode_, lq'[res])
    ]_vars
\* an upgrade waits behind a granted request, and an earlier request of another
\* transaction that every granted request is compatible with waits for the upgrade
C18_Witness ==
  \E res \in Resources :
    /\ UpgradePending(lq[res])
    /\ \E i, j \in 1 .. Len(lq[res].request_queue_) :
         /\ i < j
         /\ lq[res].request_queue_[j].txn_id_ = lq[res].upgrading_
         /\ ~lq[res].request_queue_[j].granted_
         /\ ~lq[res].request_queue_[i].granted_
         /\ ~GrantedConflict(lq[res].request_queue_[i].lock_mode_, lq[res])
         /\ txns[lq[res].request_queue_[i].txn_id_].pc = "asleep"

\* C19: a step that starts with no upgrade pending on a queue never grants a
\* request of the queue while a request queued before it waits with a mode that
\* is not compatible with it
C19_FifoGrant ==
  [][\A res \in Resources : \A t \in Txns :
       ~UpgradePending(lq[res]) /\ BecomesGranted(res, t)
       => \A j \in 1 .. (RequestOf(lq'[res], t) - 1) :
            lq'[res].request_queue_[j].granted_
            \/ <<lq'[res].request_queue_[RequestOf(lq'[res], t)].lock_mode_,
                 lq'[res].request_queue_[j].lock_mode_>> \in CompatiblePairs
    ]_vars
\* S(granted), X(waiting), S(waiting): the second S waits although every
\* granted request is compatible with it
C19_Witness ==
  \E res \in Resources :
    /\ ~UpgradePending(lq[res])
    /\ \E i, j, k \in 1 .. Len(lq[res].request_queue_) :
         /\ i < j /\ j < k
         /\ lq[res].request_queue_[i].granted_
         /\ lq[res].request_queue_[i].lock_mode_ = "SHARED"
         /\ ~lq[res].request_queue_[j].granted_
         /\ lq[res].request_queue_[j].lock_mode_ = "EXCLUSIVE"
         /\ ~lq[res].request_queue_[k].granted_
         /\ lq[res].request_queue_[k].lock_mode_ = "SHARED"
         /\ txns[lq[res].request_queue_[k].txn_id_].pc = "asleep"

\* the transaction's request waits, no upgrade is pending, and CanGrantLock
\* would grant the request
WaitsGrantable(t) ==
  \E res \in Resources :
    /\ IsWaiting(lq[res], t)
    /\ ~UpgradePending(lq[res])
    /\ txns[t].state_ # "ABORTED"
    /\ CanGrantLock(RequestOf(lq[res], t), lq[res]).ok
\* C20: under fair scheduling of the threads that have been woken, no request
\* waits for ever while it is compatible with every granted request and every
\* earlier waiting request: it is granted
C20_GrantLiveness == \A t \in Txns : []<>(~WaitsGrantable(t))

\* ---- the lock manager's error paths
\* the mode of the transaction's granted request in the queue, "NONE" without one
HeldMode(res, t) ==
  IF IsGranted(lq[res], t)
    THEN lq[res].request_queue_[RequestOf(lq[res], t)].lock_mode_ ELSE "NONE"
\* a step that is the transaction's lock_table or lock_row call in the mode
LockStep(t, res, lock_mode) ==
  IF res = "table" THEN LockTable(t, lock_mode) ELSE LockRow(t, lock_mode)
\* the transaction is growing or shrinking
Live(t) == txns[t].state_ \in {"GROWING", "SHRINKING"}
\* the request gets past the checks made before the queue is looked at: the
\* isolation gating, and for a row the caller's state and the table intent
Admitted(t, res, lock_mode) ==
  /\ CheckIsolation(txns[t], lock_mode) = "NONE"
  /\ res = "row" => Live(t) /\ CheckLockRow(t, lock_mode) = "NONE"
\* the step aborts the call: the state is ABORTED, the exception has the
\* reason, and no queue (requests, upgrading_) has changed
AbortsWith(t, reason) ==
  /\ txns'[t].state_ = "ABORTED" /\ txns'[t].reason = reason
  /\ lq' = lq
UpgradeLattice ==
  {<<"INTENTION_SHARED", "SHARED">>, <<"INTENTION_SHARED", "EXCLUSIVE">>,
   <<"INTENTION_SHARED", "INTENTION_EXCLUSIVE">>,
   <<"INTENTION_SHARED", "SHARED_INTENTION_EXCLUSIVE">>,
   <<"SHARED", "EXCLUSIVE">>, <<"SHARED", "SHARED_INTENTION_EXCLUSIVE">>,
   <<"INTENTION_EXCLUSIVE", "EXCLUSIVE">>,
   <<"INTENTION_EXCLUSIVE", "SHARED_INTENTION_EXCLUSIVE">>,
   <<"SHARED_INTENTION_EXCLUSIVE", "EXCLUSIVE">>}
\* an admitted request in a mode other than the one the transaction holds
UpgradeRequest(t, res, lock_mode) ==
  /\ LockStep(t, res, lock_mode) /\ Admitted(t, res, lock_mode)
  /\ HeldMode(res, t) \notin {"NONE", lock_mode}

\* C21 as stated: an admitted request for a mode M2 by a transaction that holds
\* M # M2 on the table or row changes the queue only if M -> M2 is in the
\* lattice, and for every other pair the call aborts with INCOMPATIBLE_UPGRADE,
\* the state becomes ABORTED and the queue, upgrading_ and the held lock stay
C21_UpgradeLatticeAsStated ==
  [][\A t \in Txns, res \in Resources, lock_mode \in LockModes :
       UpgradeRequest(t, res, lock_mode)
       /\ <<HeldMode(res, t), lock_mode>> \notin UpgradeLattice
       => AbortsWith(t, "INCOMPATIBLE_UPGRADE")
    ]_vars
\* C21: the same, with the reason INCOMPATIBLE_UPGRADE only when no upgrade is
\* pending on the queue; with one pending the call aborts with UPGRADE_CONFLICT
C21_UpgradeLattice ==
  [][\A t \in Txns, res \in Resources, lock_mode \in LockModes :
       UpgradeRequest(t, res, lock_mode)
       => IF <<HeldMode(res, t), lock_mode>> \in UpgradeLattice
            THEN UpgradePending(lq[res]) \/ txns'[t].state_ = txns[t].state_
            ELSE AbortsWith(t, IF UpgradePending(lq[res]) THEN "UPGRADE_CONFLICT"
                               ELSE "INCOMPATIBLE_UPGRADE")
    ]_vars
\* a transaction was refused an upgrade outside the lattice and still holds its lock
C21_Witness ==
  \E t \in Txns, res \in Resources :
    /\ txns[t].state_ = "ABORTED" /\ txns[t].reason = "INCOMPATIBLE_UPGRADE"
    /\ IsGranted(lq[res], t) /\ ~UpgradePending(lq[res])

GatingAbort(isolation_level, state, lock_mode) ==
  CASE isolation_level = "READ_UNCOMMITTED"
         /\ lock_mode \in {"SHARED", "INTENTION_SHARED", "SHARED_INTENTION_EXCLUSIVE"}
         -> "LOCK_SHARED_ON_READ_UNCOMMITTED"
    [] isolation_level = "READ_UNCOMMITTED"
         /\ lock_mode \in {"EXCLUSIVE", "INTENTION_EXCLUSIVE"} /\ state = "SHRINKING"
         -> "LOCK_ON_SHRINKING"
    [] isolation_level = "READ_COMMITTED"
         /\ lock_mode \notin {"INTENTION_SHARED", "SHARED"} /\ state = "SHRINKING"
         -> "LOCK_ON_SHRINKING"
    [] isolation_level = "REPEATABLE_READ" /\ state = "SHRINKING"
         -> "LOCK_ON_SHRINKING"
    [] OTHER -> "NONE"
\* C23: a lock_table or lock_row call of a growing or shrinking transaction that
\* the isolation gating rejects (READ_UNCOMMITTED: S, IS, SIX always, X and IX
\* when shrinking; READ_COMMITTED: all but IS and S when shrinking;
\* REPEATABLE_READ: every mode when shrinking) aborts with the gating's reason,
\* sets the state ABORTED and leaves every queue as it was; a call the gating
\* lets pass does not abort with one of the gating's reasons
C23_IsolationGating ==
  [][\A t \in Txns, res \in Resources, lock_mode \in LockModes :
       LockStep(t, res, lock_mode) /\ Live(t)
       => IF GatingAbort(txns[t].isolation_level_, txns[t].state_, lock_mode) # "NONE"
            THEN AbortsWith(t, GatingAbort(txns[t].isolation_level_, txns[t].state_,
                                           lock_mode))
            ELSE txns'[t].reason \notin {"LOCK_SHARED_ON_READ_UNCOMMITTED",
                                         "LOCK_ON_SHRINKING"}
    ]_vars
\* under READ_COMMITTED a shrinking transaction was refused a lock while
\* another transaction holds one
C23_Witness ==
  \E t, u \in Txns, res \in Resources :
    /\ txns[t].isolation_level_ = "READ_COMMITTED"
    /\ txns[t].state_ = "ABORTED" /\ txns[t].reason = "LOCK_ON_SHRINKING"
    /\ txns[t].unlocked
    /\ u # t /\ IsGranted(lq[res], u)

C25_UnlockOrder ==
  [][\A t \in Txns :
       /\ UnlockTable(t) /\ HeldMode("row", t) # "NONE"
            => AbortsWith(t, "TABLE_UNLOCKED_BEFORE_UNLOCKING_ROWS")
       /\ UnlockTable(t) /\ HeldMode("table", t) = "NONE"
            => AbortsWith(t, "ATTEMPTED_UNLOCK_BUT_NO_LOCK_HELD")
       /\ \A force \in BOOLEAN :
            UnlockRow(t, force) /\ HeldMode("row", t) = "NONE"
            => AbortsWith(t, "ATTEMPTED_UNLOCK_BUT_NO_LOCK_HELD")
    ]_vars

\* the state the transition rule gives after a successful unlock of the mode
ShrinkingRule(txn, lock_mode, force) ==
  IF ~force /\ (txn.isolation_level_ = "REPEATABLE_READ" \/ lock_mode = "EXCLUSIVE")
    THEN "SHRINKING" ELSE txn.state_
\* C26: a successful unlock_table or non-forced unlock_row leaves the state
\* SHRINKING under REPEATABLE_READ whatever the mode released, and under
\* READ_COMMITTED and READ_UNCOMMITTED if the mode released is X; in every other
\* case, and after a forced unlock_row, the state is as before
C26_ShrinkingTransition ==
  [][\A t \in Txns :
       /\ UnlockTable(t) /\ HeldMode("table", t) # "NONE" /\ HeldMode("row", t) = "NONE"
            => txns'[t].state_ = ShrinkingRule(txns[t], HeldMode("table", t), FALSE)
       /\ \A force \in BOOLEAN :
            UnlockRow(t, force) /\ HeldMode("row", t) # "NONE"
            => txns'[t].state_ = ShrinkingRule(txns[t], HeldMode("row", t), force)
    ]_vars

\* C27: under REPEATABLE_READ a transaction that has released a lock by a
\* successful non-forced unlock is granted no lock afterwards: on no table or
\* row does it come to hold a mode it did not hold
C27_TwoPhase ==
  [][\A t \in Txns, res \in Resources :
       txns[t].isolation_level_ = "REPEATABLE_READ" /\ txns[t].unlocked
       => \/ ~IsGranted(lq'[res], t)
          \/ /\ IsGranted(lq[res], t)
             /\ lq'[res].request_queue_[RequestOf(lq'[res], t)].lock_mode_
                  = HeldMode(res, t)
    ]_vars

\* C30: a lock_table or lock_row call by a transaction whose state is ABORTED
\* is refused: no request of it is put into a queue or granted
C30_AbortedRefused ==
  [][\A t \in Txns, res \in Resources, lock_mode \in LockModes :
       LockStep(t, res, lock_mode) /\ txns[t].state_ = "ABORTED"
       => lq' = lq
    ]_vars

\* ---- deadlock detection
\* the edges of the paths of g: the closure after n doublings of the path length
Compose(g) == g \cup {<<ef[1][1], ef[2][2]>> : ef \in {d \in g \X g : d[1][2] = d[2][1]}}
RECURSIVE Closure(_, _)
Closure(g, n) == IF n = 0 THEN g ELSE Closure(Compose(g), n - 1)
\* t is on a cycle of g none of whose transactions has a larger id
YoungestOnCycle(g, t) ==
  <<t, t>> \in Closure({e \in g : e[1] <= t /\ e[2] <= t}, Cardinality(DOMAIN txns))
\* C28: a transaction that a round of the detector aborts lies on a cycle of
\* the waits-for graph and has the largest id of the transactions on that cycle
C28_VictimOnCycle ==
  [][\A t \in DetTxns :
       DetectAbort(t) \/ DetectAbortLate(t) => YoungestOnCycle(BuildGraph, t)
    ]_vars

\* C29: no thread whose transaction has been set ABORTED sleeps for ever in its
\* lock call: it wakes, takes its request out of the queue and returns false
C29_AbortedWaiterLeaves ==
  \A t \in DetTxns : []<>~(txns[t].state_ = "ABORTED" /\ txns[t].pc = "asleep")

\* C35: a transaction comes to hold S on the row only if it holds a lock, of
\* whatever mode, on the row's table
C35_RowSharedNeedsTableLock ==
  [][\A t \in Txns :
       /\ ~IsGranted(lq["row"], t) /\ IsGranted(lq'["row"], t)
       /\ lq'["row"].request_queue_[RequestOf(lq'["row"], t)].lock_mode_ = "SHARED"
       => HeldMode("table", t) # "NONE"
    ]_vars

\* C38: an unlock_table or unlock_row call, forced or not, by a transaction
\* whose state is ABORTED or COMMITTED leaves its state as it is
C38_AbortedAbsorbing ==
  [][\A t \in Txns :
       /\ txns[t].state_ \in {"ABORTED", "COMMITTED"}
       /\ UnlockTable(t) \/ \E force \in BOOLEAN : UnlockRow(t, force)
       => txns'[t].state_ = txns[t].state_
    ]_vars

\* ---- the lock sets
\* the pairs <<resource, mode>> of the transaction's granted requests
GrantedLocks(t) ==
  {<<res, HeldMode(res, t)>> : res \in {r \in DOMAIN lq : IsGranted(lq[r], t)}}
\* C39: while no lock manager call of a transaction is in progress its lock
\* sets hold exactly the resources and modes of its granted requests; a queue
\* has at most one request of a transaction; and a queue's upgrading_ names a
\* transaction only while that transaction has a waiting request in the queue
C39_LockSetConsistency ==
  /\ \A t \in Txns : txns[t].pc = "run" => txns[t].lock_set_ = GrantedLocks(t)
  /\ \A res \in Resources :
       /\ \A i, j \in 1 .. Len(lq[res].request_queue_) :
            lq[res].request_queue_[i].txn_id_ = lq[res].request_queue_[j].txn_id_
            => i = j
       /\ UpgradePending(lq[res]) => IsWaiting(lq[res], lq[res].upgrading_)
\* a deadlock victim is back from its cancelled wait and still holds a lock,
\* and so does another transaction
C39_Witness ==
  \E t, u \in Txns :
    /\ txns[t].state_ = "ABORTED" /\ txns[t].reason = "NONE"
    /\ txns[t].pc = "run" /\ ~txns[t].ended /\ txns[t].lock_set_ # {}
    /\ u # t /\ txns[u].lock_set_ # {}

\* ---- real deadlocks
\* a request of u keeps v's waiting request from being granted: it is granted
\* and incompatible with it, or waits before it and is incompatible with it, or
\* is the pending upgrade of the queue
Blocks(u, v) ==
  \E res \in DOMAIN lq :
    /\ u # v /\ IsWaiting(lq[res], v)
    /\ \/ lq[res].upgrading_ = u
       \/ \E i \in 1 .. Len(lq[res].request_queue_) :
            /\ lq[res].request_queue_[i].txn_id_ = u
            /\ lq[res].request_queue_[i].granted_ \/ i < RequestOf(lq[res], v)
            /\ ~AreLocksCompatible(lq[res].request_queue_[RequestOf(lq[res], v)].lock_mode_,
                                   lq[res].request_queue_[i].lock_mode_)
\* the largest set of transactions each of which is blocked by another member:
\* S after n rounds of taking out the members no other member blocks
BlockedIn(S) == {v \in S : \E u \in S : Blocks(u, v)}
RECURSIVE Deadlocked(_, _)
Deadlocked(S, n) == IF n = 0 THEN S ELSE Deadlocked(BlockedIn(S), n - 1)
\* C40: a transaction that a round of the detector aborts belongs to a set of
\* transactions each of which is blocked by a request of another member
C40_NoSpuriousVictim ==
  [][\A t \in Txns :
       DetectAbort(t) \/ DetectAbortLate(t)
       => t \in Deadlocked(DOMAIN txns, Cardinality(DOMAIN txns))
    ]_vars

\* ---- separators
\* the keys stored in the leaves below page_id
RECURSIVE KeysUnder(_, _, _)
KeysUnder(t, page_id, fuel) ==
  IF page_id \notin DOMAIN t.pages THEN {}
  ELSE IF IsLeafPage(Pg(t, page_id)) \/ fuel = 0
    THEN {KeyAt(Pg(t, page_id), i) : i \in 0 .. (GetSize(Pg(t, page_id)) - 1)}
  ELSE UNION {KeysUnder(t, ValueAt(Pg(t, page_id), i), fuel - 1) :
                i \in 0 .. (GetSize(Pg(t, page_id)) - 1)}
SeparatorsOK(t, pg) ==
  /\ \A i \in 1 .. (GetSize(pg) - 2) : KeyAt(pg, i) < KeyAt(pg, i + 1)
  /\ \A i \in 0 .. (GetSize(pg) - 1) :
       \A key \in KeysUnder(t, ValueAt(pg, i), Len(t.pages)) :
         /\ i >= 1 => key >= KeyAt(pg, i)
         /\ i < GetSize(pg) - 1 => key < KeyAt(pg, i + 1)
\* C32: in every internal page of the tree the keys of the slots 1 .. size - 1
\* increase strictly, and every key stored below child i is at least key i
\* (for i >= 1) and less than key i + 1 (for i < size - 1)
C32_SeparatorInvariant ==
  \A p \in Nodes(tree) :
    ~IsLeafPage(Pg(tree, p)) => SeparatorsOK(tree, Pg(tree, p))

\* ---- the pages of the tree
\* C36: the pages the tree has allocated and not deleted are the pages
\* reachable from the root. tree.pages holds every page NewPageGuarded has
\* handed to the tree, and Insert and Remove call DeletePage nowhere, so none
\* of them is deleted.
C36_PagesReclaimed == DOMAIN tree.pages = Nodes(tree)

\* ---- latches on the way down
\* C33: an Insert that has write-latched a safe internal page (size < max) and
\* is about to latch the next page of its descent holds the latch of no
\* ancestor of that page and not the header page's
C33_EarlyRelease ==
  \A th \in TreeThreads :
    /\ thr[th].op = "Insert" /\ thr[th].pc = "descend" /\ Len(thr[th].w_) >= 2
    /\ GetSize(Pg(tree, Back(thr[th].w_))) < GetMaxSize(Pg(tree, Back(thr[th].w_)))
    => thr[th].w_ = <<Back(thr[th].w_)>>

\* ---- the page a split makes
\* the pointer right_page points into a frame that holds the new page, pinned
\* and write-latched through a live write guard
RightPageGuarded ==
  /\ pages_[thr[1].pending[1]].page_id_ = thr[1].key
  /\ pages_[thr[1].pending[1]].pin_count_ > 0
  /\ latch[thr[1].pending[1]] = 0 - 1
  /\ \E g \in Guards :
       guards[g].alive /\ guards[g].kind = "write" /\ guards[g].page_ = thr[1].pending[1]
\* C37: when the caller of Split writes the new entry and the next-page link
\* to the right page and reads the separator key from it, the right page is
\* pinned and write-latched under a live guard
C37_AccessUnderGuard == [][WriteRight => RightPageGuarded]_vars
\* the right page is still in the frame the caller writes to
WriteLandsInRightPage ==
  [][WriteRight => pages_[thr[1].pending[1]].page_id_ = thr[1].key]_vars

\* ---- Abort's undo
\* C31: after Abort the tuples the table held before the transaction have the
\* is_deleted_ they had, the tuples the transaction inserted are deleted, the
\* index holds the keys it held before, both write sets are empty and the
\* state is ABORTED
C31_AbortUndoes ==
  [][Abort(0) =>
       /\ \A rid \in 1 .. Len(heap'.tuples_) :
            heap'.tuples_[rid].is_deleted_ =
              (IF rid <= Len(heap.before.tuples_)
                 THEN heap.before.tuples_[rid].is_deleted_ ELSE TRUE)
       /\ IndexKeys(tree') = heap.before.keys
       /\ txns'[0].write_set_ = <<>> /\ txns'[0].index_write_set_ = <<>>
       /\ txns'[0].state_ = "ABORTED"
    ]_vars

\* ---- the shape of a tree filled in key order
Leaves(t) == {p \in Nodes(t) : IsLeafPage(Pg(t, p))}
\* the pages on the way from page_id down the first children
RECURSIVE Levels(_, _, _)
Levels(t, page_id, fuel) ==
  IF page_id \notin DOMAIN t.pages THEN 0
  ELSE IF IsLeafPage(Pg(t, page_id)) \/ fuel = 0 THEN 1
  ELSE 1 + Levels(t, ValueAt(Pg(t, page_id), 0), fuel - 1)
====
